---- MODULE Spec2Model ----
(***************************************************************************)
(* A model of the Raft replica of src/src/raft: the Consensus role state   *)
(* machine, the Log, the Peer Table, the Snapshot store and the metadata   *)
(* persister, for a cluster of three replicas.                             *)
(*                                                                         *)
(* Every handler of Consensus runs with the consensus lock held from its   *)
(* first to its last statement (rpc.rs:56, consensus.rs:180), so a handler *)
(* is one action.  The outbound RPCs a handler awaits are answered by the  *)
(* peer's handler, or fail in the transport; each such call is a choice,   *)
(* so a handler is modelled by the SET of worlds it can end in.            *)
(***************************************************************************)
EXTENDS Integers, Sequences, FiniteSets, TLC

\* ------------------------------------------------------------------------
\* Bounds of the model and constants of the program
\* ------------------------------------------------------------------------
Servers == {1, 2, 3}

MaxTerm == 2
MaxTermDeposed == 3
MaxTermInstall == 1
MaxTermElection == 2
MaxLogLenSnap == 8
MaxLogLenInstall == 3
InstallLeaders == {1}
MaxInstallIndex == 1
MaxLogLenConfig == 4
ConfigTargets == {{1, 2}, {1, 2, 3}}
DeposedServers == {1, 3}
\* The replicas that the application stops
StopServers == {3}
\* The replicas that no target of ConfigTargets but the whole cluster holds
RemovedServers == {3}
\* The replicas whose election timer fires in Spec and SpecConfig
TimerServers == {1, 3}
\* The replicas that take snapshots and start again in SpecRestart
RestartServers == {1}

MaxLogLen == 3
MaxLogLenReliable == 5

MaxCrash == 1

\* The replicas whose process may die
CrashServers == {3}

NONE_SERVER_ID == 0

SNAPSHOT_LOG_LENGTH_THRESHOLD == 5

Payloads == {"a"}

\* The payloads the clients of the cluster without failures propose
ReliablePayloads == {"a", "b", "c", "d"}

Max(a, b) == IF a >= b THEN a ELSE b

Min(a, b) == IF a <= b THEN a ELSE b

\* Body of the value of e
With(e, Body(_)) == CHOOSE r \in {Body(x) : x \in {e}} : TRUE

\* ------------------------------------------------------------------------
\* config.rs
\* ------------------------------------------------------------------------
EmptyConfig == [old_servers |-> {}, new_servers |-> {}]

new_stable(servers) == [old_servers |-> {}, new_servers |-> servers]

is_joint(c) == c.old_servers # {} /\ c.new_servers # {}

is_stable(c) == c.old_servers = {} /\ c.new_servers # {}

is_empty(c) == c.old_servers = {} /\ c.new_servers = {}

finalize_transition(c) == [old_servers |-> {}, new_servers |-> c.new_servers]

start_transition(c, target) == [old_servers |-> c.new_servers, new_servers |-> target]

get_node_state(c, id) == [newing |-> id \in c.new_servers, olding |-> id \in c.old_servers]

all_ids_in_config(c) == c.old_servers \cup c.new_servers

\* ------------------------------------------------------------------------
\* log.rs
\* ------------------------------------------------------------------------
NoData == [payload |-> "None", config |-> EmptyConfig]

DataOf(p) == [payload |-> p, config |-> EmptyConfig]

ConfigData(c) == [payload |-> "config", config |-> c]

VIRTUAL_LOG_ENTRY == [index |-> 0, term |-> 0, entry_type |-> "Noop", data |-> NoData]

\* Option::None of Log::entry
Absent == [index |-> 0, term |-> 0, entry_type |-> "Absent", data |-> NoData]

NewLog == [entries |-> <<>>, start_index |-> 1]

entry(log, index) ==
    IF index = 0 THEN VIRTUAL_LOG_ENTRY
    ELSE IF index < log.start_index THEN VIRTUAL_LOG_ENTRY
    ELSE IF index - log.start_index + 1 <= Len(log.entries)
         THEN log.entries[index - log.start_index + 1]
         ELSE Absent

last_index(log, last_included_index) ==
    IF log.entries = <<>>
    THEN IF last_included_index > 0 /\ last_included_index >= log.start_index - 1
         THEN last_included_index
         ELSE Max(log.start_index - 1, 0)
    ELSE log.entries[Len(log.entries)].index

last_term(log, last_included_term) ==
    IF log.entries = <<>>
    THEN IF last_included_term > 0 /\ log.start_index > 0 THEN last_included_term ELSE 0
    ELSE log.entries[Len(log.entries)].term

prev_log_term(log, prev_log_index, last_included_index, last_included_term) ==
    IF prev_log_index = 0 THEN 0
    ELSE IF prev_log_index = last_included_index THEN last_included_term
    ELSE With(entry(log, prev_log_index), LAMBDA e :
         IF e = Absent THEN 0
         ELSE IF e.index = prev_log_index \/ prev_log_index >= log.start_index
              THEN e.term
              ELSE 0)

pack_entries(log, next_index) ==
    IF next_index < log.start_index THEN <<>>
    ELSE IF next_index > last_index(log, 0) + 1 THEN <<>>
    ELSE SubSeq(log.entries, next_index - log.start_index + 1, Len(log.entries))

append_data(log, term, entry_type, data) ==
    [log EXCEPT !.entries = Append(@, [index |-> last_index(log, 0) + 1, term |-> term,
                                        entry_type |-> entry_type, data |-> data])]

append_entries(log, entries_to_append) ==
    [log EXCEPT !.entries = @ \o entries_to_append]

truncate_suffix(log, last_index_kept) ==
    IF log.entries = <<>> \/ last_index_kept < log.start_index
    THEN [log EXCEPT !.entries = <<>>]
    ELSE With(last_index_kept - log.start_index + 1, LAMBDA new_len :
         IF new_len < Len(log.entries)
         THEN [log EXCEPT !.entries = SubSeq(@, 1, new_len)]
         ELSE log)

truncate_prefix(log, upto) ==
    IF upto < log.start_index THEN log
    ELSE With(upto - log.start_index + 1, LAMBDA drain_count :
         [entries |-> IF last_index(log, 0) <= upto THEN <<>>
                      ELSE IF drain_count <= Len(log.entries)
                           THEN SubSeq(log.entries, drain_count + 1, Len(log.entries))
                           ELSE <<>>,
          start_index |-> upto + 1])

committed_entries_len(log, commit_index) ==
    IF commit_index < log.start_index THEN 0
    ELSE Min(commit_index - log.start_index + 1, Len(log.entries))

\* Some(config) as <<config>>, None as <<>>
last_configuration(log) ==
    With({k \in 1..Len(log.entries) : log.entries[k].entry_type = "Configuration"}, LAMBDA idx :
    IF idx = {} THEN <<>>
    ELSE <<log.entries[CHOOSE k \in idx : \A j \in idx : j <= k].data.config>>)

\* The payloads of the Data entries of log[1..upto], in index order
RECURSIVE DataPayloads(_, _)
DataPayloads(log, upto) ==
    IF upto < log.start_index THEN <<>>
    ELSE With(entry(log, upto), LAMBDA e :
         IF e # Absent /\ e.entry_type = "Data"
         THEN Append(DataPayloads(log, upto - 1), e.data.payload)
         ELSE DataPayloads(log, upto - 1))

\* ------------------------------------------------------------------------
\* peer.rs
\* ------------------------------------------------------------------------
U64_MAX == 2147483647

\* Peer::vote_granted is left out: request_vote_rpc writes it, and the one reader,
\* quorum_vote_granted, is called by nothing.
NewPeer(id) == [id |-> id, next_index |-> 1, match_index |-> 0,
                config_state |-> [newing |-> TRUE, olding |-> FALSE]]

\* The ids of a set in ascending order: the order peers are pushed in
RECURSIVE SetToSeq(_)
SetToSeq(S) ==
    IF S = {} THEN <<>>
    ELSE With(CHOOSE x \in S : \A y \in S : x <= y, LAMBDA m :
         <<m>> \o SetToSeq(S \ {m}))

PeerIds(peers) == {peers[k].id : k \in 1..Len(peers)}

contains(peers, id) == id \in PeerIds(peers)

PeerPos(peers, id) == CHOOSE k \in 1..Len(peers) : peers[k].id = id

peer(peers, id) == peers[PeerPos(peers, id)]

\* The peers of one membership set, which being "newing" or "olding", in the
\* order of the vector
SelectPeers(peers, which) ==
    LET F[k \in 0..Len(peers)] ==
            IF k = 0 THEN <<>>
            ELSE IF peers[k].config_state[which] THEN Append(F[k - 1], peers[k])
                 ELSE F[k - 1] IN
    F[Len(peers)]

add(peers, new_ids, last_log_index) ==
    peers \o [k \in 1..Len(new_ids) |->
                 [NewPeer(new_ids[k]) EXCEPT !.next_index = last_log_index + 1]]

remove(peers, ids) ==
    LET F[k \in 0..Len(peers)] ==
            IF k = 0 THEN <<>>
            ELSE IF peers[k].id \notin ids THEN Append(F[k - 1], peers[k]) ELSE F[k - 1] IN
    F[Len(peers)]

\* match_indexes.sort_unstable(); match_indexes[(len - 1) / 2]
SortedAt(vals, k) ==
    CHOOSE v \in {vals[j] : j \in 1..Len(vals)} :
        /\ Cardinality({j \in 1..Len(vals) : vals[j] < v}) <= k
        /\ Cardinality({j \in 1..Len(vals) : vals[j] <= v}) > k

\* get_quorum_match_index with the last element of the sorted vector taken, the
\* largest match index, where the code takes the element at (len - 1) / 2
get_quorum_match_index_last(peers, leader_last_index, in_config, is_leader_in_this_config) ==
    With(IF is_leader_in_this_config THEN <<leader_last_index>> ELSE <<>>, LAMBDA mine :
    With(SelectPeers(peers, in_config), LAMBDA sel :
    With(mine \o [k \in 1..Len(sel) |-> sel[k].match_index], LAMBDA match_indexes :
    IF match_indexes = <<>> THEN U64_MAX
    ELSE SortedAt(match_indexes, Len(match_indexes) - 1))))

\* get_quorum_match_index with the element at len / 2 of the sorted vector taken
get_quorum_match_index_half(peers, leader_last_index, in_config, is_leader_in_this_config) ==
    With(IF is_leader_in_this_config THEN <<leader_last_index>> ELSE <<>>, LAMBDA mine :
    With(SelectPeers(peers, in_config), LAMBDA sel :
    With(mine \o [k \in 1..Len(sel) |-> sel[k].match_index], LAMBDA match_indexes :
    IF match_indexes = <<>> THEN U64_MAX
    ELSE SortedAt(match_indexes, Len(match_indexes) \div 2))))

get_quorum_match_index(peers, leader_last_index, in_config, is_leader_in_this_config) ==
    With(IF is_leader_in_this_config THEN <<leader_last_index>> ELSE <<>>, LAMBDA mine :
    With(SelectPeers(peers, in_config), LAMBDA sel :
    With(mine \o [k \in 1..Len(sel) |-> sel[k].match_index], LAMBDA match_indexes :
    IF match_indexes = <<>> THEN U64_MAX
    ELSE SortedAt(match_indexes, (Len(match_indexes) - 1) \div 2))))

quoram_match_index(peers, leader_config_state, leader_last_index) ==
    Min(get_quorum_match_index(peers, leader_last_index, "newing", leader_config_state.newing),
        get_quorum_match_index(peers, leader_last_index, "olding", leader_config_state.olding))

\* ------------------------------------------------------------------------
\* metadata.rs: the cache read by get(), the channel to the persister task,
\* the task's own copy with its dirty flag, and the file on disk
\* ------------------------------------------------------------------------
NewMetadata == [current_term |-> 0, voted_for |-> NONE_SERVER_ID]

MetadataManager_new(initial) ==
    [cache |-> initial, tx |-> <<>>, task |-> initial, dirty |-> FALSE, disk |-> initial]

update_current_term(m, term) ==
    IF m.cache.current_term = term THEN m
    ELSE [m EXCEPT !.cache.current_term = term,
                   !.tx = Append(@, [cmd |-> "UpdateTerm", val |-> term])]

update_voted_for(m, id) ==
    IF m.cache.voted_for = id THEN m
    ELSE [m EXCEPT !.cache.voted_for = id,
                   !.tx = Append(@, [cmd |-> "UpdateVotedFor", val |-> id])]

sync(m) == [m EXCEPT !.tx = Append(@, [cmd |-> "Flush", val |-> 0])]

\* One command taken from the channel by the persister task (metadata.rs:90-113)
PersistCommand(m, c) ==
    IF c.cmd = "UpdateTerm"
    THEN IF m.task.current_term # c.val
         THEN [m EXCEPT !.task.current_term = c.val, !.dirty = TRUE] ELSE m
    ELSE IF c.cmd = "UpdateVotedFor"
    THEN IF m.task.voted_for # c.val
         THEN [m EXCEPT !.task.voted_for = c.val, !.dirty = TRUE] ELSE m
    ELSE IF m.dirty THEN [m EXCEPT !.disk = m.task, !.dirty = FALSE] ELSE m

\* The first k commands of the channel taken by the task
PersistPrefix(m, k) ==
    LET F[j \in 0..k] == IF j = 0 THEN m ELSE PersistCommand(F[j - 1], m.tx[j]) IN
    [F[k] EXCEPT !.tx = SubSeq(m.tx, k + 1, Len(m.tx))]

\* periodic_flush_timer.tick() (metadata.rs:115-124)
PeriodicFlush(m) == IF m.dirty THEN [m EXCEPT !.disk = m.task, !.dirty = FALSE] ELSE m

\* ------------------------------------------------------------------------
\* snapshot.rs
\* ------------------------------------------------------------------------
\* Option<Config> of Snapshot::configuration: <<>> or <<config>>
NewSnapshot == [last_included_index |-> 0, last_included_term |-> 0, configuration |-> <<>>]

\* The snapshot directory of a replica: its raft-<index>-<term> files, by extension
\* (.snapshot, .snapshot.metadata and the two .tmp ones).  A file is
\* [index, term, content], its content the sequence of the chunks written to it.
NoFiles == [snapshot |-> {}, metadata |-> {}, tmp_snapshot |-> {}, tmp_metadata |-> {}]

\* The content of a file of kind "metadata" or "snapshot" that holds value, as the
\* n chunks of SNAPSHOT_TRUNK_SIZE bytes it is read and sent in
FileContent(kind, value, n) ==
    [k \in 1..n |-> [kind |-> kind, part |-> k, parts |-> n, value |-> value]]

\* serde_json::from_str is Ok on a file that holds the chunks of one value of the
\* kind, all of them and in order
Parses(kind, content) ==
    /\ content # <<>>
    /\ content = FileContent(kind, content[1].value, Len(content))

FileAt(files, index, term) == {f \in files : f.index = index /\ f.term = term}

\* File::create and write_all, or a rename onto the name
WriteFile(files, index, term, content) ==
    (files \ FileAt(files, index, term))
        \cup {[index |-> index, term |-> term, content |-> content]}

\* Some(file) as <<file>>, None as <<>>
latest_file_with_pattern(files) ==
    With({f \in files : f.index > 0 \/ f.term > 0}, LAMBDA found :
    IF found = {} THEN <<>>
    ELSE <<CHOOSE f \in found :
              \A g \in found : g.index < f.index \/ (g.index = f.index /\ g.term <= f.term)>>)

\* The metadata JSON of this program is longer than one chunk
take_snapshot_metadata(n, last_included_index, last_included_term, configuration) ==
    With([last_included_index |-> last_included_index,
          last_included_term |-> last_included_term,
          configuration |-> configuration], LAMBDA s :
    [n EXCEPT !.snapshot = s,
              !.files = [n.files EXCEPT !.metadata =
                            WriteFile(n.files.metadata, last_included_index,
                                      last_included_term, FileContent("metadata", s, 2))]])

\* panic is the panic! of a file that does not deserialize
reload_metadata(n) ==
    With(latest_file_with_pattern(n.files.metadata), LAMBDA latest :
    IF latest = <<>> THEN [panic |-> FALSE, n |-> n]
    ELSE IF ~Parses("metadata", latest[1].content) THEN [panic |-> TRUE, n |-> n]
    ELSE [panic |-> FALSE, n |-> [n EXCEPT !.snapshot = latest[1].content[1].value]])

\* ------------------------------------------------------------------------
\* state_machine.rs: SimpleStateMachine, its entries being n.state_machine
\* ------------------------------------------------------------------------
take_snapshot(n, index, term) ==
    [n EXCEPT !.files = [n.files EXCEPT !.snapshot =
                            WriteFile(n.files.snapshot, index, term,
                                      FileContent("snapshot", n.state_machine, 1))]]

restore_snapshot(n, file) ==
    IF ~Parses("snapshot", file.content) THEN [panic |-> TRUE, n |-> n]
    ELSE [panic |-> FALSE, n |-> [n EXCEPT !.state_machine = file.content[1].value]]

\* ------------------------------------------------------------------------
\* consensus.rs: the state of one replica, and the world of all replicas
\* with the history the properties are stated on
\* ------------------------------------------------------------------------
InitialServers == Servers

\* The process starts: none of its files makes Consensus::new panic
CanStartWith(meta, snap) ==
    /\ meta # <<>> => Parses("metadata", meta[1].content)
    /\ (meta # <<>> /\ snap # <<>> /\ meta[1].content[1].value.last_included_index > 0)
           => Parses("snapshot", snap[1].content)

CanStart(files) ==
    CanStartWith(latest_file_with_pattern(files.metadata),
                 latest_file_with_pattern(files.snapshot))

\* Consensus::new: what a (re)started process builds from its files, the metadata
\* file, the log file and the snapshot directory
\* consensus.rs:85-99: the snapshot's configuration, else the last one of the log,
\* else the stable configuration of the servers the process is started with
InitialConfig(server_id, log_file, snapshot_meta) ==
    IF snapshot_meta.configuration # <<>> THEN snapshot_meta.configuration[1]
    ELSE IF last_configuration(log_file) # <<>> THEN last_configuration(log_file)[1]
    ELSE new_stable(InitialServers \cup {server_id})

\* consensus.rs:103-121: the struct as it is filled in
NewConsensus(server_id, metadata_file, log_file, files, snapshot_meta, initial_config) ==
    [server_id |-> server_id,
     timers |-> TRUE,
     metadata |-> MetadataManager_new(metadata_file),
     state |-> "Follower",
     current_config |-> initial_config,
     node_config_state |-> get_node_state(initial_config, server_id),
     log |-> log_file,
     commit_index |-> 0,
     last_applied |-> 0,
     state_machine |-> <<>>,
     leader_id |-> NONE_SERVER_ID,
     peers |-> <<>>,
     snapshot |-> snapshot_meta,
     files |-> files]

current_term(n) == n.metadata.cache.current_term

voted_for(n) == n.metadata.cache.voted_for

snap_index(n) == n.snapshot.last_included_index

snap_term(n) == n.snapshot.last_included_term

LastIndex(n) == last_index(n.log, snap_index(n))

LastTerm(n) == last_term(n.log, snap_term(n))

update_peer_config_states(n) ==
    [n EXCEPT !.node_config_state = get_node_state(n.current_config, n.server_id),
              !.peers = [k \in 1..Len(n.peers) |->
                            [n.peers[k] EXCEPT !.config_state =
                                get_node_state(n.current_config, n.peers[k].id)]]]

\* consensus.rs:126-138: the snapshot is applied when there is a snapshot file
ApplySnapshot(n, snap) ==
    IF snap_index(n) > 0 /\ snap # <<>>
    THEN [n EXCEPT !.state_machine = snap[1].content[1].value,
                   !.commit_index = snap_index(n),
                   !.last_applied = snap_index(n),
                   !.log = truncate_prefix(n.log, snap_index(n))]
    ELSE n

\* consensus.rs:140-153: a peer for every other server of the configuration
InitPeers(n) ==
    update_peer_config_states(
        [n EXCEPT !.peers = add(<<>>, SetToSeq(all_ids_in_config(n.current_config) \ {n.server_id}),
                                LastIndex(n))])

LoadedSnapshot(meta) == IF meta = <<>> THEN NewSnapshot ELSE meta[1].content[1].value

ConsensusOf(server_id, metadata_file, log_file, files, snapshot_meta) ==
    InitPeers(ApplySnapshot(
        NewConsensus(server_id, metadata_file, log_file, files, snapshot_meta,
                     InitialConfig(server_id, log_file, snapshot_meta)),
        latest_file_with_pattern(files.snapshot)))

\* Consensus::new: what a (re)started process builds from its files, the metadata
\* file, the log file and the snapshot directory
Consensus_new(server_id, metadata_file, log_file, files) ==
    ConsensusOf(server_id, metadata_file, log_file, files,
                LoadedSnapshot(latest_file_with_pattern(files.metadata)))

shutdown(n) == [n EXCEPT !.state = "Follower", !.leader_id = NONE_SERVER_ID, !.timers = FALSE]

\* A step_down that keeps the vote of the term that is over
step_down_keeps_vote(n, new_term) ==
    IF new_term < current_term(n) THEN n
    ELSE [n EXCEPT !.state = "Follower",
                   !.metadata = sync(update_current_term(n.metadata, Max(new_term, current_term(n)))),
                   !.leader_id = NONE_SERVER_ID]

step_down(n, new_term) ==
    IF new_term < current_term(n) THEN n
    ELSE With([n EXCEPT !.state = "Follower"], LAMBDA n1 :
         With(IF new_term > current_term(n)
              THEN [n1 EXCEPT !.metadata = update_voted_for(update_current_term(n1.metadata, new_term),
                                                            NONE_SERVER_ID),
                              !.leader_id = NONE_SERVER_ID]
              ELSE IF n.state \in {"Leader", "Candidate"}
                   THEN [n1 EXCEPT !.leader_id = NONE_SERVER_ID]
                   ELSE n1, LAMBDA n2 :
         [n2 EXCEPT !.metadata = sync(n2.metadata)]))

apply_configuration_to_internal_state(n, config_to_apply, committed) ==
    IF committed
    THEN With(update_peer_config_states([n EXCEPT !.current_config = config_to_apply]), LAMBDA n1 :
         IF n1.state = "Leader" /\ is_stable(n1.current_config) /\ ~n1.node_config_state.newing
         THEN shutdown(n1) ELSE n1)
    ELSE With(get_node_state(config_to_apply, n.server_id), LAMBDA pending_node_state :
         With(IF is_joint(config_to_apply)
              THEN With(SetToSeq({id \in config_to_apply.new_servers :
                                     id # n.server_id /\ ~contains(n.peers, id)}), LAMBDA new_ids :
                   [n EXCEPT !.peers = add(n.peers, new_ids, LastIndex(n))])
              ELSE IF is_stable(config_to_apply)
              THEN With([n EXCEPT !.peers = remove(n.peers, PeerIds(n.peers) \
                                                      config_to_apply.new_servers)], LAMBDA n0 :
                   IF n0.state # "Leader" /\ ~pending_node_state.newing
                   THEN shutdown(n0) ELSE n0)
              ELSE n, LAMBDA n1 :
         [n1 EXCEPT !.node_config_state = pending_node_state,
                    !.peers = [k \in 1..Len(n1.peers) |->
                                  [n1.peers[k] EXCEPT !.config_state =
                                      get_node_state(config_to_apply, n1.peers[k].id)]]]))

handle_snapshot_timeout(n) ==
    IF committed_entries_len(n.log, n.commit_index) > SNAPSHOT_LOG_LENGTH_THRESHOLD
    THEN With(n.last_applied, LAMBDA last_included_idx :
         With(entry(n.log, last_included_idx), LAMBDA e :
         With(IF e # Absent THEN e.term
              ELSE IF last_included_idx = snap_index(n) THEN snap_term(n) ELSE 0, LAMBDA last_included_term :
         IF last_included_idx = 0 THEN n
         ELSE IF last_included_term = 0 THEN n
         ELSE With(take_snapshot_metadata(
                       take_snapshot(n, last_included_idx, last_included_term),
                       last_included_idx, last_included_term, <<n.current_config>>),
                   LAMBDA n2 : [n2 EXCEPT !.log = truncate_prefix(n2.log, last_included_idx)]))))
    ELSE n

\* The world a handler runs in: the replicas, and the history of what they did.
\*   elected    the <<term, id>> of every transition to Leader
\*   applied    per replica, the entries its commit loops went through
\*   committed  the entries leaders committed, with the committing term
\*   proposed   the entries whose Propose was answered success = true
\*   commits    the advances of commit_index the leaders made in the last step
\*   wins       the elections won in the last step
\*   max_log    the bound on the length of the logs
\*   reliable   no call fails in the transport
\*   watched    the handler is looked at while replicate awaits its AppendEntries calls
\*   awaiting   the handler is at that await, the calls sent and none handled yet:
\*              the world is the cluster as it stands then, and no code runs on it

Node(w, i) == w.node[i]

SetNode(w, n) ==
    [w EXCEPT !.node = [i \in DOMAIN w.node |-> IF i = n.server_id THEN n ELSE w.node[i]]]

AddApplied(w, id, records) ==
    [w EXCEPT !.applied = [i \in DOMAIN w.applied |->
                              IF i = id THEN w.applied[i] \cup records ELSE w.applied[i]]]

\* peers[k] = p
SetPeer(n, k, p) ==
    [n EXCEPT !.peers = [j \in 1..Len(n.peers) |-> IF j = k THEN p ELSE n.peers[j]]]

AppliedRecord(index, e) ==
    [index |-> index, term |-> e.term, entry_type |-> e.entry_type, data |-> e.data]

\* The body of the commit loop of a follower for one index (consensus.rs:543-568);
\* brk is the `break` of a missing entry
FollowerApplyOne(r, index_to_apply) ==
    IF r.brk \/ index_to_apply <= r.n.last_applied THEN r
    ELSE With(entry(r.n.log, index_to_apply), LAMBDA e :
         IF e = Absent THEN [r EXCEPT !.brk = TRUE]
         ELSE With(IF e.entry_type = "Data"
                   THEN [r.n EXCEPT !.state_machine = Append(@, e.data.payload)]
                   ELSE IF e.entry_type = "Configuration"
                   THEN apply_configuration_to_internal_state(r.n, e.data.config, TRUE)
                   ELSE r.n, LAMBDA n1 :
              [n |-> [n1 EXCEPT !.last_applied = index_to_apply],
               brk |-> FALSE,
               applied |-> r.applied \cup {AppliedRecord(index_to_apply, e)}]))

follower_advance_commit_index(w, id, leader_commit_index) ==
    With(Node(w, id), LAMBDA n :
    With(Min(leader_commit_index, LastIndex(n)), LAMBDA new_commit_index :
    LET F[k \in n.commit_index..Max(new_commit_index, n.commit_index)] ==
            IF k = n.commit_index THEN [n |-> n, brk |-> FALSE, applied |-> {}]
            ELSE FollowerApplyOne(F[k - 1], k) IN
    IF new_commit_index > n.commit_index
    THEN With(F[new_commit_index], LAMBDA r :
         AddApplied(SetNode(w, [r.n EXCEPT !.commit_index = r.n.last_applied]), id, r.applied))
    ELSE w))

\* A check that lets every request pass
PrevLogMatchesAlways(n, request) == TRUE

\* Step 4 of the receiver: the check on prev_log_index (consensus.rs:852-881)
PrevLogMatches(n, request) ==
    IF request.prev_log_index > 0
    THEN IF request.prev_log_index < n.log.start_index
         THEN IF request.prev_log_index = snap_index(n)
              THEN request.prev_log_term = snap_term(n)
              ELSE TRUE
         ELSE With(entry(n.log, request.prev_log_index), LAMBDA local_prev_entry :
              local_prev_entry # Absent /\ local_prev_entry.term = request.prev_log_term)
    ELSE TRUE

\* consensus.rs:883-894: only the first entry of the request is compared
TruncateAtConflict(n, request) ==
    IF request.entries # <<>>
    THEN With(request.entries[1].index, LAMBDA first :
         With(entry(n.log, first), LAMBDA existing :
         existing # Absent /\ existing.term # request.entries[1].term))
    ELSE FALSE

\* consensus.rs:897-904, read against the log as it is after the truncation
EntriesToAdd(n, request) ==
    LET F[k \in 0..Len(request.entries)] ==
            IF k = 0 THEN <<>>
            ELSE With(request.entries[k], LAMBDA e :
                 IF e.index > LastIndex(n)
                    \/ entry(n.log, e.index) = Absent
                    \/ entry(n.log, e.index).term # e.term
                 THEN Append(F[k - 1], e) ELSE F[k - 1]) IN
    F[Len(request.entries)]

ApplyPendingConfigs(n, entries) ==
    LET F[k \in 0..Len(entries)] ==
            IF k = 0 THEN n
            ELSE IF entries[k].entry_type = "Configuration"
                 THEN apply_configuration_to_internal_state(F[k - 1], entries[k].data.config, FALSE)
                 ELSE F[k - 1] IN
    F[Len(entries)]

\* A receiver that takes the sender of a request of a lower term for the leader
handle_append_entries_rpc_stale_leader(w, id, request) ==
    IF request.term < current_term(Node(w, id))
    THEN [w |-> SetNode(w, [Node(w, id) EXCEPT !.leader_id = request.leader_id]),
          resp |-> [term |-> current_term(Node(w, id)), success |-> FALSE]]
    ELSE [w |-> w, resp |-> [term |-> current_term(Node(w, id)), success |-> FALSE]]

\* The receiver of AppendEntries: the world after it, and the response
handle_append_entries_rpc(w, id, request) ==
    With(Node(w, id), LAMBDA n :
    IF request.term < current_term(n)
    THEN [w |-> w, resp |-> [term |-> current_term(n), success |-> FALSE]]
    ELSE
    With(IF request.term > current_term(n) THEN step_down(n, request.term)
         ELSE IF n.state = "Leader" /\ request.leader_id # n.server_id
              THEN step_down(n, request.term) ELSE n, LAMBDA n1 :
    With([n1 EXCEPT !.leader_id = request.leader_id], LAMBDA n2 :
    IF ~PrevLogMatches(n2, request)
    THEN [w |-> SetNode(w, n2),
          resp |-> [term |-> IF request.term > current_term(n) THEN current_term(n1)
                             ELSE current_term(n),
                    success |-> FALSE]]
    ELSE
    With(IF TruncateAtConflict(n2, request)
         THEN [n2 EXCEPT !.log = truncate_suffix(n2.log, request.entries[1].index - 1)]
         ELSE n2, LAMBDA n3 :
    With(EntriesToAdd(n3, request), LAMBDA to_add :
    With(IF to_add # <<>>
         THEN ApplyPendingConfigs([n3 EXCEPT !.log = append_entries(n3.log, to_add)], to_add)
         ELSE n3, LAMBDA n4 :
    With(IF request.leader_commit > n4.commit_index
         THEN follower_advance_commit_index(SetNode(w, n4), id, request.leader_commit)
         ELSE SetNode(w, n4), LAMBDA w5 :
    [w |-> w5, resp |-> [term |-> current_term(Node(w5, id)), success |-> TRUE]])))))))

\* The receiver of RequestVote: the world after it, and the response
handle_request_vote_rpc(w, id, request) ==
    With(Node(w, id), LAMBDA n :
    IF request.term < current_term(n)
    THEN [w |-> w, resp |-> [term |-> current_term(n), vote_granted |-> FALSE]]
    ELSE
    With(IF request.term > current_term(n) THEN step_down(n, request.term) ELSE n, LAMBDA n1 :
    With(\/ request.last_log_term > LastTerm(n1)
         \/ /\ request.last_log_term = LastTerm(n1)
            /\ request.last_log_index >= LastIndex(n1), LAMBDA log_ok :
    With(voted_for(n1) = NONE_SERVER_ID \/ voted_for(n1) = request.candidate_id, LAMBDA free :
    With(request.candidate_id \in all_ids_in_config(n1.current_config), LAMBDA candidate_in_current_config :
    With(/\ log_ok /\ free
         /\ ~(~candidate_in_current_config /\ ~is_empty(n1.current_config)),
         LAMBDA grant_vote :
    With(IF grant_vote
         THEN [n1 EXCEPT !.metadata = sync(update_voted_for(n1.metadata, request.candidate_id)),
                         !.state = "Follower",
                         !.leader_id = NONE_SERVER_ID]
         ELSE n1, LAMBDA n2 :
    [w |-> SetNode(w, n2),
     resp |-> [term |-> current_term(n2), vote_granted |-> grant_vote]])))))))

\* consensus.rs:995-1027: the final chunk.  A panic! ends the handler where it is.
\* consensus.rs:1003-1008: a rename that fails is logged, and the handler goes on
RenameTmpMetadata(files, tmp, index, term) ==
    IF tmp = {} THEN files
    ELSE [files EXCEPT !.tmp_metadata = files.tmp_metadata \ tmp,
                       !.metadata = WriteFile(files.metadata, index, term,
                                              (CHOOSE f \in tmp : TRUE).content)]

RenameTmpSnapshot(files, tmp, index, term) ==
    IF tmp = {} THEN files
    ELSE [files EXCEPT !.tmp_snapshot = files.tmp_snapshot \ tmp,
                       !.snapshot = WriteFile(files.snapshot, index, term,
                                              (CHOOSE f \in tmp : TRUE).content)]

RenameTmpFiles(files, index, term) ==
    RenameTmpSnapshot(
        RenameTmpMetadata(files, FileAt(files.tmp_metadata, index, term), index, term),
        FileAt(files.tmp_snapshot, index, term), index, term)

\* consensus.rs:1012-1015: the latest snapshot file, if there is one, is restored
RestoreLatest(r, snap_file_to_restore) ==
    IF r.panic \/ snap_file_to_restore = <<>> THEN r
    ELSE restore_snapshot(r.n, snap_file_to_restore[1])

\* consensus.rs:1017-1025: the indexes, the configuration and the log follow the snapshot
AdoptSnapshot(n) ==
    [n EXCEPT !.commit_index = snap_index(n),
              !.last_applied = snap_index(n),
              !.log = truncate_prefix(n.log, snap_index(n))]

AdoptConfiguration(n) ==
    IF n.snapshot.configuration # <<>>
    THEN update_peer_config_states([n EXCEPT !.current_config = n.snapshot.configuration[1]])
    ELSE n

Installed(r) ==
    IF r.panic THEN r ELSE [panic |-> FALSE, n |-> AdoptSnapshot(AdoptConfiguration(r.n))]

\* consensus.rs:995-1027: the final chunk.  A panic! ends the handler where it is.
InstallDone(n, request) ==
    Installed(RestoreLatest(
        reload_metadata([n EXCEPT !.files = RenameTmpFiles(n.files, request.last_included_index,
                                                           request.last_included_term)]),
        latest_file_with_pattern(
            RenameTmpFiles(n.files, request.last_included_index,
                           request.last_included_term).snapshot)))

\* consensus.rs:940-947: the step down, and the sender is the leader
InstallStepDown(n, request) ==
    IF request.term > current_term(n) \/ (n.state = "Leader" /\ request.leader_id # n.server_id)
    THEN [step_down(n, request.term) EXCEPT !.leader_id = request.leader_id]
    ELSE [n EXCEPT !.leader_id = request.leader_id]

TmpFiles(n, request) ==
    IF request.snapshot_data_type = "Metadata" THEN n.files.tmp_metadata
    ELSE n.files.tmp_snapshot

\* consensus.rs:972-993: write_all at the place the file was opened at
Written(request, old) ==
    IF request.offset > 0 THEN old \o request.data
    ELSE request.data \o SubSeq(old, Len(request.data) + 1, Len(old))

WriteChunk(n, request, tmp_files1) ==
    [n EXCEPT !.files = IF request.snapshot_data_type = "Metadata"
                        THEN [n.files EXCEPT !.tmp_metadata = tmp_files1]
                        ELSE [n.files EXCEPT !.tmp_snapshot = tmp_files1]]

InstallSnapshotResponse(w, r) ==
    [w |-> SetNode(w, r.n), resp |-> [ok |-> ~r.panic, term |-> current_term(r.n)]]

ReceiveChunk(w, n, request, existing) ==
    IF request.offset > 0 /\ existing = {}
    THEN InstallSnapshotResponse(w, [panic |-> FALSE, n |-> n])
    ELSE IF request.done
    THEN InstallSnapshotResponse(w,
             InstallDone(WriteChunk(n, request,
                 WriteFile(TmpFiles(n, request), request.last_included_index,
                           request.last_included_term,
                           Written(request, IF existing = {} THEN <<>>
                                            ELSE (CHOOSE f \in existing : TRUE).content))),
                 request))
    ELSE InstallSnapshotResponse(w,
             [panic |-> FALSE,
              n |-> WriteChunk(n, request,
                        WriteFile(TmpFiles(n, request), request.last_included_index,
                                  request.last_included_term,
                                  Written(request, IF existing = {} THEN <<>>
                                                   ELSE (CHOOSE f \in existing : TRUE).content)))])

ReceiveSnapshot(w, n, request) ==
    ReceiveChunk(w, n, request,
                 FileAt(TmpFiles(n, request), request.last_included_index,
                        request.last_included_term))

\* The receiver of InstallSnapshot: the world after it, and the response (ok is
\* FALSE when the handler panicked and the caller got an Err).  The temp file of
\* the chunk is opened with create iff offset = 0 and append iff offset > 0.
handle_install_snapshot_rpc(w, id, request) ==
    IF request.term < current_term(Node(w, id))
    THEN [w |-> w, resp |-> [ok |-> TRUE, term |-> current_term(Node(w, id))]]
    ELSE ReceiveSnapshot(w, InstallStepDown(Node(w, id), request), request)

\* ------------------------------------------------------------------------
\* consensus.rs, the sending side.  An operator that awaits outbound RPCs
\* yields the set of worlds it can end in: each call either fails in the
\* transport (nothing reaches the peer) or is handled by the peer.
\* ------------------------------------------------------------------------
\* What a call ends in: it fails before the peer handled it, or after, or it is
\* answered; only the last in a world whose transport is reliable
CallOutcomes(w, failed, handled, answered) ==
    IF w.reliable THEN answered ELSE {failed, handled} \cup answered

AppendEntriesRequest(n, p, heartbeat) ==
    [term |-> current_term(n),
     leader_id |-> n.server_id,
     prev_log_index |-> p.next_index - 1,
     prev_log_term |-> prev_log_term(n.log, p.next_index - 1, snap_index(n), snap_term(n)),
     entries |-> IF heartbeat THEN <<>> ELSE pack_entries(n.log, p.next_index),
     leader_commit |-> n.commit_index]

\* consensus.rs:330-348: the leader's handling of an AppendEntries response
OnAppendEntriesResponse(n, peer_id, req, resp) ==
    IF resp.term > current_term(n) THEN step_down(n, resp.term)
    ELSE IF ~contains(n.peers, peer_id) THEN n
    ELSE With(PeerPos(n.peers, peer_id), LAMBDA k :
         IF resp.success
         THEN SetPeer(n, k, [n.peers[k] EXCEPT
                                !.match_index = req.prev_log_index + Len(req.entries),
                                !.next_index = req.prev_log_index + Len(req.entries) + 1])
         ELSE IF n.peers[k].next_index > 1
              THEN SetPeer(n, k, [n.peers[k] EXCEPT !.next_index = @ - 1])
              ELSE n)

InstallSnapshotRequestsPerFile(n, current_term_val, metadata_file, snapshot_file) ==
    [k \in 1..Len(metadata_file.content) |->
        [term |-> current_term_val, leader_id |-> n.server_id,
         last_included_index |-> snap_index(n), last_included_term |-> snap_term(n),
         offset |-> k - 1, data |-> <<metadata_file.content[k]>>,
         snapshot_data_type |-> "Metadata", done |-> FALSE]]
    \o [k \in 1..Len(snapshot_file.content) |->
           [term |-> current_term_val, leader_id |-> n.server_id,
            last_included_index |-> snap_index(n), last_included_term |-> snap_term(n),
            offset |-> k - 1, data |-> <<snapshot_file.content[k]>>,
            snapshot_data_type |-> "Snapshot", done |-> k = Len(snapshot_file.content)]]

\* The requests of one InstallSnapshot session: the chunks of the metadata file,
\* then the chunks of the data file, offset running over both (consensus.rs:385-455)
InstallSnapshotRequests(n, current_term_val, metadata_file, snapshot_file) ==
    LET request(data, offset, type, done) ==
            [term |-> current_term_val, leader_id |-> n.server_id,
             last_included_index |-> snap_index(n), last_included_term |-> snap_term(n),
             offset |-> offset, data |-> <<data>>, snapshot_data_type |-> type, done |-> done] IN
    With(Len(metadata_file.content), LAMBDA meta_size :
    With(Len(snapshot_file.content), LAMBDA snap_size :
    [k \in 1..meta_size |-> request(metadata_file.content[k], k - 1, "Metadata", FALSE)]
    \o [k \in 1..snap_size |->
           request(snapshot_file.content[k], meta_size + k - 1, "Snapshot", k = snap_size)]))

RECURSIVE SendSnapshotChunks(_, _, _, _, _, _)

\* The session from request k on: each call fails in the transport before or after
\* the peer handled it, or its response is looked at
SendSnapshotChunks(w, id, peer_id, current_term_val, requests, k) ==
    IF k > Len(requests) THEN {w}
    ELSE With(handle_install_snapshot_rpc(w, peer_id, requests[k]), LAMBDA r :
         With(Node(r.w, id), LAMBDA n :
         CallOutcomes(w, w, r.w,
              IF ~r.resp.ok THEN {}
              ELSE IF r.resp.term > current_term(n)
              THEN {SetNode(r.w, step_down(n, r.resp.term))}
              ELSE With(IF requests[k].done /\ contains(n.peers, peer_id)
                        THEN SetPeer(n, PeerPos(n.peers, peer_id),
                                     [peer(n.peers, peer_id) EXCEPT
                                         !.next_index = requests[k].last_included_index + 1,
                                         !.match_index = requests[k].last_included_index])
                        ELSE n, LAMBDA n1 :
                   SendSnapshotChunks(SetNode(r.w, n1), id, peer_id, current_term_val,
                                      requests, k + 1)))))

install_snapshot_to_peer(w, id, peer_id) ==
    With(Node(w, id), LAMBDA n :
    With(latest_file_with_pattern(n.files.metadata), LAMBDA metadata_file :
    With(latest_file_with_pattern(n.files.snapshot), LAMBDA snapshot_file :
    IF ~contains(n.peers, peer_id) THEN {w}
    ELSE IF metadata_file = <<>> \/ snapshot_file = <<>> THEN {w}
    ELSE SendSnapshotChunks(w, id, peer_id, current_term(n),
                            InstallSnapshotRequests(n, current_term(n), metadata_file[1],
                                                    snapshot_file[1]),
                            1))))

append_one_entry_to_peer(w, id, peer_id, heartbeat) ==
    LET n == Node(w, id)
        p == peer(n.peers, peer_id) IN
    IF ~contains(n.peers, peer_id) THEN {w}
    ELSE IF ~heartbeat /\ p.next_index < n.log.start_index
    THEN install_snapshot_to_peer(w, id, peer_id)
    ELSE With(AppendEntriesRequest(n, p, heartbeat), LAMBDA req :
         With(handle_append_entries_rpc(w, peer_id, req), LAMBDA r :
         CallOutcomes(w, w, r.w,
             {SetNode(r.w, OnAppendEntriesResponse(Node(r.w, id), peer_id, req, r.resp))})))

RECURSIVE leader_advance_commit_index(_, _)
RECURSIVE LeaderApplyFrom(_, _, _, _)
RECURSIVE replicate(_, _, _, _)
RECURSIVE append_entries_to_peers(_, _, _)

append_entries_to_peers(w, id, heartbeat) ==
    LET n == Node(w, id)
        peer_server_ids == [k \in 1..Len(n.peers) |-> n.peers[k].id]
        F[k \in 0..Len(peer_server_ids)] ==
            IF k = 0 THEN {w}
            ELSE UNION {append_one_entry_to_peer(x, id, peer_server_ids[k], heartbeat) :
                           x \in F[k - 1]} IN
    IF n.state # "Leader" THEN {w}
    ELSE UNION {leader_advance_commit_index(x, id) : x \in F[Len(peer_server_ids)]}

\* Bounded by max_log: a world in which the log would grow past it is not followed
replicate(w, id, entry_type, data) ==
    LET n == Node(w, id)
        n1 == [n EXCEPT !.log = append_data(n.log, current_term(n), entry_type, data)]
        n2 == IF entry_type = "Configuration"
              THEN apply_configuration_to_internal_state(n1, data.config, FALSE)
              ELSE n1 IN
    IF n.state # "Leader" THEN {w}
    ELSE IF LastIndex(n) >= w.max_log THEN {}
    ELSE (IF w.watched THEN {[SetNode(w, n2) EXCEPT !.awaiting = TRUE]} ELSE {})
         \cup UNION {append_entries_to_peers(x, id, FALSE) : x \in {SetNode(w, n2)}}

\* target is <<new_servers>> for SetConfiguration, <<>> for the final C(new)
append_and_replicate_config_change(w, id, target) ==
    LET n == Node(w, id) IN
    IF n.state # "Leader" THEN {w}
    ELSE IF target # <<>>
    THEN IF target[1] = {} \/ ~is_stable(n.current_config) THEN {w}
         ELSE replicate(w, id, "Configuration",
                        ConfigData(start_transition(n.current_config, target[1])))
    ELSE IF ~is_joint(n.current_config) THEN {w}
         ELSE replicate(w, id, "Configuration",
                        ConfigData(finalize_transition(n.current_config)))

append_and_replicate_final_config(w, id) ==
    LET n == Node(w, id) IN
    IF n.state # "Leader" THEN {w}
    ELSE IF ~is_joint(n.current_config) THEN {w}
    ELSE append_and_replicate_config_change(w, id, <<>>)

\* The commit loop of the leader from index_to_apply on (consensus.rs:493-525)
LeaderApplyFrom(w, id, index_to_apply, new_commit_index) ==
    LET n == Node(w, id)
        e == entry(n.log, index_to_apply)
        configured == {SetNode(w, apply_configuration_to_internal_state(n, e.data.config, TRUE))}
        after == IF e.entry_type = "Data"
                 THEN {SetNode(w, [n EXCEPT !.state_machine = Append(@, e.data.payload)])}
                 ELSE IF e.entry_type = "Configuration"
                 THEN IF is_joint(e.data.config)
                      THEN UNION {append_and_replicate_final_config(w1, id) : w1 \in configured}
                      ELSE configured
                 ELSE {w}
        Applied(x) ==
            IF x.awaiting THEN x
            ELSE AddApplied(SetNode(x, [Node(x, id) EXCEPT !.last_applied = index_to_apply]),
                            id, {AppliedRecord(index_to_apply, e)}) IN
    IF w.awaiting \/ index_to_apply > new_commit_index THEN {w}
    ELSE IF index_to_apply <= n.last_applied
    THEN LeaderApplyFrom(w, id, index_to_apply + 1, new_commit_index)
    ELSE IF e = Absent THEN {w}
    ELSE UNION {LeaderApplyFrom(y, id, index_to_apply + 1, new_commit_index) :
                   y \in {Applied(x) : x \in after}}

CommitEvent(n, new_commit_index) ==
    [id |-> n.server_id, n |-> new_commit_index, commit_index |-> n.commit_index,
     entry_term |-> entry(n.log, new_commit_index).term, current_term |-> current_term(n),
     peers |-> n.peers, node_config_state |-> n.node_config_state,
     last_index |-> LastIndex(n)]

CommittedRecords(n, from, to) ==
    {[index |-> k, term |-> entry(n.log, k).term, entry_type |-> entry(n.log, k).entry_type,
      data |-> entry(n.log, k).data, cterm |-> current_term(n)] :
        k \in {j \in from..to : j >= n.log.start_index /\ entry(n.log, j) # Absent}}

\* The loop for one commit of new_commit_index by the leader n of the world w
AdvanceTo(w, id, n, new_commit_index) ==
    {IF x.awaiting THEN x
     ELSE SetNode(x, [Node(x, id) EXCEPT !.commit_index = new_commit_index]) :
        x \in UNION {LeaderApplyFrom(w0, id, n.commit_index + 1, new_commit_index) :
                        w0 \in {[w EXCEPT !.commits = @ \cup {CommitEvent(n, new_commit_index)},
                                          !.committed = @ \cup CommittedRecords(
                                                                   n, n.commit_index + 1,
                                                                   new_commit_index)]}}}

leader_advance_commit_index(w, id) ==
    LET n == Node(w, id)
        new_commit_index == quoram_match_index(n.peers, n.node_config_state, LastIndex(n))
        entry_to_check == entry(n.log, new_commit_index) IN
    IF n.state # "Leader" THEN {w}
    ELSE IF new_commit_index <= n.commit_index THEN {w}
    ELSE IF entry_to_check # Absent /\ entry_to_check.term # current_term(n) THEN {w}
    ELSE IF entry_to_check = Absent /\ new_commit_index > snap_index(n) THEN {w}
    ELSE UNION {AdvanceTo(w, id, n, k) : k \in {new_commit_index}}

\* ------------------------------------------------------------------------
\* consensus.rs: election
\* ------------------------------------------------------------------------
\* consensus.rs:1372-1380: the replica is the leader, and knows nothing of its peers
LeaderInit(n) ==
    [n EXCEPT !.state = "Leader",
              !.leader_id = n.server_id,
              !.peers = [k \in 1..Len(n.peers) |->
                            [n.peers[k] EXCEPT !.next_index = LastIndex(n) + 1,
                                               !.match_index = 0]]]

\* A candidate that takes the lead and replicates nothing
become_leader_silent(w, id) ==
    IF Node(w, id).state # "Candidate" THEN {w}
    ELSE {[SetNode(w, LeaderInit(Node(w, id))) EXCEPT
               !.elected = @ \cup {<<current_term(Node(w, id)), id>>}]}

become_leader(w, id) ==
    With(Node(w, id), LAMBDA n :
    IF n.state # "Candidate" THEN {w}
    ELSE With([SetNode(w, LeaderInit(n)) EXCEPT !.elected = @ \cup {<<current_term(n), id>>}],
              LAMBDA w1 :
         replicate(w1, id, "Noop", NoData)))

RequestVoteRequest(n) ==
    [term |-> current_term(n), candidate_id |-> n.server_id,
     last_log_index |-> LastIndex(n), last_log_term |-> LastTerm(n)]

\* An Err(e) of the transport
RpcError == [ok |-> FALSE, term |-> 0, vote_granted |-> FALSE]

\* future::join_all(vote_futs): every request fails or is handled by its peer
\* before any response is looked at (consensus.rs:1200-1232)
SendRequestVotes(w, id, peer_ids, req) ==
    LET F[k \in 0..Len(peer_ids)] ==
            IF k = 0 THEN {[w |-> w, results |-> <<>>]}
            ELSE UNION {
                   With(handle_request_vote_rpc(x.w, peer_ids[k], req), LAMBDA r :
                   CallOutcomes(w, [w |-> x.w, results |-> Append(x.results, RpcError)],
                                [w |-> r.w, results |-> Append(x.results, RpcError)],
                                {[w |-> r.w,
                                  results |-> Append(x.results,
                                                     [ok |-> TRUE, term |-> r.resp.term,
                                                      vote_granted |-> r.resp.vote_granted])]})) :
                   x \in F[k - 1]} IN
    F[Len(peer_ids)]

\* A count that takes every result for a granted vote, an Err(e) too
CountVoteOfAny(c, peer_id, result) ==
    [c EXCEPT !.granted_votes_for_new = @ + 1,
              !.granted_votes_for_old = @ + 1,
              !.voters = @ \cup {peer_id}]

\* consensus.rs:1234-1266 for one result; done is the `return`
CountVote(c, peer_id, result) ==
    IF c.done THEN c
    ELSE IF result.ok /\ result.term > current_term(c.n)
    THEN [c EXCEPT !.n = step_down(c.n, result.term), !.done = TRUE]
    ELSE With(IF result.ok /\ result.vote_granted /\ contains(c.n.peers, peer_id)
              THEN With(PeerPos(c.n.peers, peer_id), LAMBDA k :
                   With(c.n.peers[k].config_state, LAMBDA cs :
                   [c EXCEPT !.granted_votes_for_new = @ + IF cs.newing THEN 1 ELSE 0,
                             !.granted_votes_for_old = @ + IF cs.olding THEN 1 ELSE 0,
                             !.voters = @ \cup {peer_id}]))
              ELSE c, LAMBDA c1 :
         [c1 EXCEPT !.done = c1.n.state # "Candidate"])

\* What is kept of an election won: the winner, its term, the peers whose granted
\* vote it counted, and its log and snapshot at that moment
WinEvent(n, voters) ==
    [id |-> n.server_id, term |-> current_term(n), voters |-> voters,
     log_config |-> last_configuration(n.log), snapshot_config |-> n.snapshot.configuration]

\* consensus.rs:1217-1232: the candidate's own vote in the configuration which
OwnVote(n, which) ==
    IF which = "newing" THEN (IF n.node_config_state.newing THEN 1 ELSE 0)
    ELSE (IF n.node_config_state.olding THEN 1 ELSE 0)

\* consensus.rs:1234-1266: the votes counted over the results x.results of the
\* calls to peer_ids, x.w being the world after the calls
Tally(x, id, peer_ids) ==
    LET F[k \in 0..Len(peer_ids)] ==
            IF k = 0 THEN [n |-> Node(x.w, id), done |-> FALSE,
                           granted_votes_for_new |-> OwnVote(Node(x.w, id), "newing"),
                           granted_votes_for_old |-> OwnVote(Node(x.w, id), "olding"),
                           voters |-> {}]
            ELSE CountVote(F[k - 1], peer_ids[k], x.results[k]) IN
    F[Len(peer_ids)]

\* consensus.rs:1268-1281: a configuration without members has its quorum
HasQuorum(granted_votes, total_nodes) == total_nodes = 0 \/ granted_votes * 2 > total_nodes

\* consensus.rs:1268-1290: the decision on the tally c
Decide(x, id, c) ==
    IF c.done THEN {SetNode(x.w, c.n)}
    ELSE IF /\ HasQuorum(c.granted_votes_for_new,
                         OwnVote(c.n, "newing") + Len(SelectPeers(c.n.peers, "newing")))
            /\ HasQuorum(c.granted_votes_for_old,
                         OwnVote(c.n, "olding") + Len(SelectPeers(c.n.peers, "olding")))
            /\ c.n.state = "Candidate"
    THEN become_leader([SetNode(x.w, c.n) EXCEPT !.wins = @ \cup {WinEvent(c.n, c.voters)}], id)
    ELSE {SetNode(x.w, c.n)}

PeerIdSeq(n) == [k \in 1..Len(n.peers) |-> n.peers[k].id]

request_vote_rpc(w, id) ==
    UNION {Decide(x, id, Tally(x, id, PeerIdSeq(Node(w, id)))) :
              x \in SendRequestVotes(w, id, PeerIdSeq(Node(w, id)),
                                     RequestVoteRequest(Node(w, id)))}

\* consensus.rs:1157-1172: the replica becomes a candidate of the next term
StartCandidacy(n) ==
    [n EXCEPT !.state = "Candidate",
              !.metadata = sync(update_voted_for(
                               update_current_term(n.metadata, current_term(n) + 1),
                               n.server_id)),
              !.leader_id = NONE_SERVER_ID]

handle_election_timeout(w, id) ==
    IF Node(w, id).state = "Leader" THEN {w}
    ELSE request_vote_rpc(SetNode(w, StartCandidacy(Node(w, id))), id)

\* A leader whose heartbeat timer sends nothing
handle_heartbeat_timeout_silent(w, id) == {w}

handle_heartbeat_timeout(w, id) ==
    IF Node(w, id).state = "Leader" THEN append_entries_to_peers(w, id, TRUE) ELSE {w}

\* success = true is the answer whenever replicate returned Ok (consensus.rs:806-811)
handle_propose_rpc(w, id, payload) ==
    With(Node(w, id), LAMBDA n :
    IF n.state # "Leader" THEN {w}
    ELSE {[x EXCEPT !.proposed = @ \cup {[index |-> LastIndex(n) + 1, term |-> current_term(n),
                                         payload |-> payload]}] :
             x \in replicate(w, id, "Data", DataOf(payload))})

\* A handler that looks at current_config only
handle_set_configuration_rpc_current_config(w, id, new_servers) ==
    IF Node(w, id).state # "Leader" \/ new_servers = {} \/ is_joint(Node(w, id).current_config)
    THEN {w}
    ELSE append_and_replicate_config_change(w, id, <<new_servers>>)

handle_set_configuration_rpc(w, id, new_servers) ==
    With(Node(w, id), LAMBDA n :
    IF n.state # "Leader" THEN {w}
    ELSE IF new_servers = {} THEN {w}
    ELSE IF is_joint(n.current_config) THEN {w}
    ELSE IF last_configuration(n.log) # <<>> /\ is_joint(last_configuration(n.log)[1]) THEN {w}
    ELSE append_and_replicate_config_change(w, id, <<new_servers>>))

\* ------------------------------------------------------------------------
\* The state machine of the cluster
\* ------------------------------------------------------------------------
VARIABLES node, elected, applied, committed, proposed, commits, wins, crashes, calls

vars == <<node, elected, applied, committed, proposed, commits, wins, crashes, calls>>

\* calls[i] is the handler replica i is in the middle of, with the consensus lock
\* held: the request it sent to its peers and the responses it has so far.  Only the
\* specifications that follow the lock have a replica in the middle of a handler.
\* calls[i].waiting holds the timers of replica i whose callback was dispatched and
\* has not run yet.
NoCall == [active |-> FALSE, req |-> <<>>, results |-> <<>>, waiting |-> {}]

\* The world a handler starts in: the events of the step before are forgotten
World(max_log) ==
    [node |-> node, elected |-> elected, applied |-> applied, committed |-> committed,
     proposed |-> proposed, commits |-> {}, wins |-> {}, max_log |-> max_log,
     reliable |-> FALSE, watched |-> FALSE, awaiting |-> FALSE]

Becomes(w) ==
    /\ node' = w.node
    /\ elected' = w.elected
    /\ applied' = w.applied
    /\ committed' = w.committed
    /\ proposed' = w.proposed
    /\ commits' = w.commits
    /\ wins' = w.wins

Init ==
    /\ node = [i \in Servers |-> Consensus_new(i, NewMetadata, NewLog, NoFiles)]
    /\ elected = {}
    /\ applied = [i \in Servers |-> {}]
    /\ committed = {}
    /\ proposed = {}
    /\ commits = {}
    /\ wins = {}
    /\ crashes = 0
    /\ calls = [i \in Servers |-> NoCall]

\* The persister task takes every command of the channel (metadata.rs:88-113)
Persisted(n) == [n EXCEPT !.metadata = PersistPrefix(n.metadata, Len(n.metadata.tx))]

\* The persister task of a replica in mortal runs when it is scheduled, as an
\* action of its own.  The task of any other replica is scheduled at the end of
\* every handler, so the file of such a replica is up to date between handlers.
After(w, mortal) ==
    Becomes([w EXCEPT !.node = [i \in DOMAIN w.node |->
                                   IF i \in mortal THEN w.node[i] ELSE Persisted(w.node[i])]])

\* Bounded by max_term: an election that would open a later term is not followed
ElectionTimeout(i, mortal, max_term, max_log) ==
    /\ node[i].timers
    /\ current_term(node[i]) < max_term
    /\ \E w \in handle_election_timeout(World(max_log), i) : After(w, mortal)
    /\ UNCHANGED <<crashes, calls>>

HeartbeatTimeout(i, mortal, max_log) ==
    /\ node[i].timers
    /\ node[i].state = "Leader"
    /\ \E w \in handle_heartbeat_timeout(World(max_log), i) : After(w, mortal)
    /\ UNCHANGED <<crashes, calls>>

Propose(i, payload, mortal, max_log) ==
    /\ node[i].state = "Leader"
    /\ \E w \in handle_propose_rpc(World(max_log), i, payload) : After(w, mortal)
    /\ UNCHANGED <<crashes, calls>>

SetConfiguration(i, new_servers, mortal, max_log) ==
    /\ node[i].state = "Leader"
    /\ \E w \in handle_set_configuration_rpc(World(max_log), i, new_servers) : After(w, mortal)
    /\ UNCHANGED <<crashes, calls>>

SnapshotTimeout(i) ==
    /\ node[i].timers
    /\ Becomes(SetNode(World(0), handle_snapshot_timeout(node[i])))
    /\ UNCHANGED <<crashes, calls>>

\* The InstallSnapshot method of the server (rpc.rs:88-101) is called with a chunk of
\* a snapshot of what a leader applied up to last_included_index, namely the whole
\* of one of the two files (offset 0), marked done or not
\* The chunk that holds the whole of one of the two files of the snapshot s of
\* what the leader l applied, at offset 0
WholeFileRequest(l, s, type, done) ==
    [term |-> current_term(l), leader_id |-> l.server_id,
     last_included_index |-> s.last_included_index,
     last_included_term |-> s.last_included_term,
     offset |-> 0,
     data |-> IF type = "Metadata" THEN FileContent("metadata", s, 1)
              ELSE FileContent("snapshot", DataPayloads(l.log, s.last_included_index), 1),
     snapshot_data_type |-> type, done |-> done]

SnapshotAt(l, last_included_index) ==
    [last_included_index |-> last_included_index,
     last_included_term |-> entry(l.log, last_included_index).term,
     configuration |-> <<l.current_config>>]

InstallSnapshotRpc(i, leader, last_included_index, type, done) ==
    /\ leader # i
    /\ node[leader].state = "Leader"
    /\ last_included_index \in node[leader].log.start_index..node[leader].last_applied
    /\ Becomes(handle_install_snapshot_rpc(
                   World(0), i,
                   WholeFileRequest(node[leader], SnapshotAt(node[leader], last_included_index),
                                    type, done)).w)
    /\ UNCHANGED <<crashes, calls>>

PersistMetadata(i) ==
    /\ node[i].metadata.tx # <<>>
    /\ Becomes(SetNode(World(0), Persisted(node[i])))
    /\ UNCHANGED <<crashes, calls>>

\* The process dies and is started again.  The persister task had taken k commands
\* of the channel and, if tick, its periodic flush had run after them; what was in
\* memory is lost.  (While the process is away the calls to it fail in the
\* transport, which every call may do at any time.)
\* What the metadata file holds when the process dies
DiskAtCrash(m, k, tick) ==
    IF tick THEN PeriodicFlush(PersistPrefix(m, k)).disk ELSE PersistPrefix(m, k).disk

CrashAndRestart(i) ==
    /\ crashes < MaxCrash
    /\ CanStart(node[i].files)
    /\ \E k \in 0..Len(node[i].metadata.tx), tick \in BOOLEAN :
         Becomes(SetNode(World(0), Consensus_new(i, DiskAtCrash(node[i].metadata, k, tick),
                                                 node[i].log, node[i].files)))
    /\ crashes' = crashes + 1
    /\ UNCHANGED calls

\* Elections of the replicas of TimerServers, heartbeats and proposals in a cluster
\* whose processes never die
Next ==
    \/ \E i \in TimerServers : ElectionTimeout(i, {}, MaxTerm, MaxLogLen)
    \/ \E i \in Servers : HeartbeatTimeout(i, {}, MaxLogLen)
    \/ \E i \in Servers, payload \in Payloads : Propose(i, payload, {}, MaxLogLen)

Spec == Init /\ [][Next]_vars

\* Elections in a cluster where the processes of CrashServers die and are started
\* again, at most MaxCrash times
NextCrash ==
    \/ \E i \in Servers : ElectionTimeout(i, CrashServers, MaxTerm, MaxLogLen)
    \/ \E i \in CrashServers : PersistMetadata(i)
    \/ \E i \in CrashServers : CrashAndRestart(i)

SpecCrash == Init /\ [][NextCrash]_vars

\* Elections up to MaxTermDeposed, the election timers of DeposedServers being the
\* ones that fire, and proposals
NextDeposed ==
    \/ \E i \in DeposedServers : ElectionTimeout(i, {}, MaxTermDeposed, MaxLogLen)
    \/ \E i \in Servers, payload \in Payloads : Propose(i, payload, {}, MaxLogLen)

SpecDeposed == Init /\ [][NextDeposed]_vars

\* The cluster after replica 1 was elected in term 1 by replica 2 and had
\* SNAPSHOT_LOG_LENGTH_THRESHOLD proposals replicated to replica 2, no call having
\* reached replica 3
InitialWorld(max_log) ==
    [node |-> [i \in Servers |-> Consensus_new(i, NewMetadata, NewLog, NoFiles)],
     elected |-> {}, applied |-> [i \in Servers |-> {}], committed |-> {}, proposed |-> {},
     commits |-> {}, wins |-> {}, max_log |-> max_log, reliable |-> FALSE,
     watched |-> FALSE, awaiting |-> FALSE]

Elected(w) ==
    CHOOSE x \in handle_election_timeout(w, 1) :
        /\ x.node[3] = w.node[3]
        /\ x.node[1].state = "Leader"
        /\ x.node[1].commit_index = 1

RECURSIVE AfterProposals(_, _)
AfterProposals(w, k) ==
    IF k = 0 THEN w
    ELSE With(AfterProposals(w, k - 1), LAMBDA v :
         CHOOSE x \in handle_propose_rpc(v, 1, CHOOSE p \in Payloads : TRUE) :
             /\ x.node[3] = v.node[3]
             /\ x.node[1].commit_index = LastIndex(x.node[1]))

InitSnap ==
    \E w \in {AfterProposals(Elected(InitialWorld(MaxLogLenSnap)), SNAPSHOT_LOG_LENGTH_THRESHOLD)} :
        /\ node = [i \in Servers |-> Persisted(w.node[i])]
        /\ elected = w.elected
        /\ applied = w.applied
        /\ committed = w.committed
        /\ proposed = w.proposed
        /\ commits = {}
        /\ wins = {}
        /\ crashes = 0
        /\ calls = [i \in Servers |-> NoCall]

\* Snapshots, proposals and heartbeats from there on
NextSnap ==
    \/ \E i \in Servers : SnapshotTimeout(i)
    \/ \E i \in Servers, payload \in Payloads : Propose(i, payload, {}, MaxLogLenSnap)
    \/ \E i \in Servers : HeartbeatTimeout(i, {}, MaxLogLenSnap)

SpecSnap == InitSnap /\ [][NextSnap]_vars

\* From the same cluster: snapshots of the replicas of RestartServers, whose processes
\* die and are started again, changes of the configuration, and elections
NextRestart ==
    \/ \E i \in RestartServers : SnapshotTimeout(i)
    \/ \E i \in Servers, new_servers \in ConfigTargets :
           SetConfiguration(i, new_servers, {}, MaxLogLenSnap)
    \/ \E i \in RestartServers : CrashAndRestart(i)
    \/ \E i \in Servers : ElectionTimeout(i, {}, MaxTerm, MaxLogLenSnap)

SpecRestart == InitSnap /\ [][NextRestart]_vars

\* Elections of the replicas of InstallLeaders and proposals, the chunks of snapshots
\* arriving at the replicas of CrashServers, whose processes die and are started again
NextInstall ==
    \/ \E i \in InstallLeaders : ElectionTimeout(i, {}, MaxTermInstall, MaxLogLenInstall)
    \/ \E i \in Servers, payload \in Payloads : Propose(i, payload, {}, MaxLogLenInstall)
    \/ \E i \in CrashServers, leader \in Servers, last_included_index \in 1..MaxInstallIndex,
           type \in {"Metadata", "Snapshot"}, done \in BOOLEAN :
           InstallSnapshotRpc(i, leader, last_included_index, type, done)
    \/ \E i \in CrashServers : CrashAndRestart(i)

SpecInstall == Init /\ [][NextInstall]_vars

\* Elections of the replicas of TimerServers and changes of the configuration to one
\* of ConfigTargets
NextConfig ==
    \/ \E i \in TimerServers : ElectionTimeout(i, {}, MaxTerm, MaxLogLenConfig)
    \/ \E i \in Servers, new_servers \in ConfigTargets :
           SetConfiguration(i, new_servers, {}, MaxLogLenConfig)

SpecConfig == Init /\ [][NextConfig]_vars

\* ------------------------------------------------------------------------
\* A change of the configuration looked at while it is under way.  The handler of
\* SetConfiguration keeps the lock of the leader from the first line to the last
\* (rpc.rs:165-166), and the commit of C(old,new) appends and replicates C(new) from
\* inside the commit loop (consensus.rs:512-515): the followers serve the calls of
\* the handler, and are between two handlers of their own, while the leader awaits.
\* ------------------------------------------------------------------------
\* No replica is in the middle of a handler
Idle == \A j \in Servers : ~calls[j].active

\* The leader i is called with new_servers, and its handler has got to an await of
\* the responses to the AppendEntries calls of replicate (consensus.rs:1472-1476)
SetConfigurationUnderWay(i, new_servers, max_log) ==
    /\ node[i].state = "Leader"
    /\ \E w \in handle_set_configuration_rpc([World(max_log) EXCEPT !.watched = TRUE],
                                              i, new_servers) :
          /\ w.awaiting
          /\ After(w, {})
    /\ calls' = [j \in Servers |->
                    IF j = i THEN [active |-> TRUE, req |-> <<>>, results |-> <<>>,
                                   waiting |-> calls[i].waiting]
                    ELSE calls[j]]
    /\ UNCHANGED crashes

NextUnderWay ==
    \/ \E i \in TimerServers : Idle /\ ElectionTimeout(i, {}, MaxTerm, MaxLogLenConfig)
    \/ \E i \in Servers, new_servers \in ConfigTargets :
           Idle /\ SetConfigurationUnderWay(i, new_servers, MaxLogLenConfig)

SpecUnderWay == Init /\ [][NextUnderWay]_vars

\* The append_entries method of the server of replica i (rpc.rs:45-65) is called
\* with the request of the leader for a peer whose next_index is next_index
\* (consensus.rs:283-300): the entries of the log of the leader from there on.  The
\* lock of i is free, the leader can be in the middle of a handler.
AppendEntriesRpc(i, leader, next_index) ==
    /\ leader # i
    /\ ~calls[i].active
    /\ node[leader].state = "Leader"
    /\ next_index \in node[leader].log.start_index..LastIndex(node[leader])
    /\ After(handle_append_entries_rpc(
                 World(0), i,
                 AppendEntriesRequest(node[leader],
                                      [id |-> i, next_index |-> next_index, match_index |-> 0,
                                       config_state |-> get_node_state(
                                           node[leader].current_config, i)],
                                      FALSE)).w, {})
    /\ UNCHANGED <<crashes, calls>>

\* A change of the configuration under way, and the requests of the leader arriving
\* at the replicas of RemovedServers
NextArrival ==
    \/ NextUnderWay
    \/ \E i \in RemovedServers, leader \in Servers, next_index \in 1..MaxLogLenConfig :
           AppendEntriesRpc(i, leader, next_index)

SpecArrival == Init /\ [][NextArrival]_vars

\* ------------------------------------------------------------------------
\* Timers and the stop of a replica.  The task of a timer wakes up, finds the timer
\* alive and hands the callback to spawn_blocking (timer.rs:65-77); the callback
\* spawns the task that takes the consensus lock and runs the handler
\* (consensus.rs:178-184, 197-203, 214-220).  Whatever takes the lock first runs
\* between the two.
\* ------------------------------------------------------------------------
TimerNames == {"election", "heartbeat", "snapshot"}

\* The application stops the replica (lib.rs:47-65)
Stop(i) ==
    /\ After(SetNode(World(0), shutdown(node[i])), {})
    /\ UNCHANGED <<crashes, calls>>

\* The timer of replica i fires: its callback is dispatched
DispatchTimer(i, timer) ==
    /\ node[i].timers
    /\ timer \notin calls[i].waiting
    /\ Becomes(World(0))
    /\ calls' = [j \in Servers |->
                    IF j = i THEN [calls[i] EXCEPT !.waiting = @ \cup {timer}] ELSE calls[j]]
    /\ UNCHANGED crashes

\* The task of a dispatched callback gets the lock and runs the handler of the timer
RunCallback(i, timer, max_term, max_log) ==
    /\ timer \in calls[i].waiting
    /\ \/ /\ timer = "election"
          /\ current_term(node[i]) < max_term
          /\ \E w \in handle_election_timeout(World(max_log), i) : After(w, {})
       \/ /\ timer = "heartbeat"
          /\ \E w \in handle_heartbeat_timeout(World(max_log), i) : After(w, {})
       \/ /\ timer = "snapshot"
          /\ After(SetNode(World(0), handle_snapshot_timeout(node[i])), {})
    /\ calls' = [j \in Servers |->
                    IF j = i THEN [calls[i] EXCEPT !.waiting = @ \ {timer}] ELSE calls[j]]
    /\ UNCHANGED crashes

\* Elections of the replicas of TimerServers; the timers of the replicas of
\* StopServers are followed from the dispatch of a callback to its run, and these
\* replicas are stopped
NextStop ==
    \/ \E i \in TimerServers : ElectionTimeout(i, {}, MaxTerm, MaxLogLen)
    \/ \E i \in StopServers : Stop(i)
    \/ \E i \in StopServers, timer \in TimerNames : DispatchTimer(i, timer)
    \/ \E i \in StopServers, timer \in TimerNames : RunCallback(i, timer, MaxTerm, MaxLogLen)

SpecStop == Init /\ [][NextStop]_vars

\* ------------------------------------------------------------------------
\* Elections at the grain of the consensus lock.  The task of the election timer
\* takes the lock of its replica and holds it while request_vote_rpc awaits the
\* responses of all the peers (consensus.rs:180-183, 1232); the server side of a
\* call takes the lock of the peer before the handler runs (rpc.rs:78); the client
\* has no timeout (rpc.rs:226-244).  No call fails in the transport here.
\* ------------------------------------------------------------------------
\* The election timer of replica i fires and its task gets the lock
StartElection(i) ==
    /\ ~calls[i].active
    /\ node[i].timers
    /\ node[i].state # "Leader"
    /\ current_term(node[i]) < MaxTermElection
    /\ After(SetNode(World(MaxLogLen), StartCandidacy(node[i])), {})
    /\ calls' = [j \in Servers |->
                    IF j = i THEN [active |-> TRUE,
                                   req |-> RequestVoteRequest(StartCandidacy(node[i])),
                                   results |-> <<>>,
                                   waiting |-> calls[i].waiting]
                    ELSE calls[j]]
    /\ UNCHANGED crashes

\* The results of the calls of an election with the response of peer j added
WithResponse(results, j, resp) ==
    [k \in DOMAIN results \cup {j} |->
        IF k = j THEN [ok |-> TRUE, term |-> resp.term, vote_granted |-> resp.vote_granted]
        ELSE results[k]]

\* The server task of peer j gets the lock of j and handles the RequestVote of i
ServeRequestVote(i, j) ==
    /\ calls[i].active
    /\ j \in PeerIds(node[i].peers) \ DOMAIN calls[i].results
    /\ ~calls[j].active
    /\ After(handle_request_vote_rpc(World(MaxLogLen), j, calls[i].req).w, {})
    /\ calls' = [k \in Servers |->
                    IF k = i
                    THEN [calls[i] EXCEPT !.results =
                             WithResponse(calls[i].results, j,
                                 handle_request_vote_rpc(World(MaxLogLen), j, calls[i].req).resp)]
                    ELSE calls[k]]
    /\ UNCHANGED crashes

\* join_all has every response: the votes are counted and the lock is given back
\* at the end of the handler.  The calls of a new leader do not reach a replica
\* whose lock is held.
FinishElection(i) ==
    /\ calls[i].active
    /\ DOMAIN calls[i].results = PeerIds(node[i].peers)
    /\ \E w \in Decide([w |-> World(MaxLogLen),
                         results |-> [k \in 1..Len(node[i].peers) |->
                                         calls[i].results[node[i].peers[k].id]]],
                        i,
                        Tally([w |-> World(MaxLogLen),
                               results |-> [k \in 1..Len(node[i].peers) |->
                                               calls[i].results[node[i].peers[k].id]]],
                              i, PeerIdSeq(node[i]))) :
          /\ \A j \in Servers \ {i} : calls[j].active => w.node[j] = node[j]
          /\ After(w, {})
    /\ calls' = [j \in Servers |-> IF j = i THEN NoCall ELSE calls[j]]
    /\ UNCHANGED crashes

NextElection ==
    \/ \E i \in Servers : StartElection(i)
    \/ \E i \in Servers, j \in Servers : ServeRequestVote(i, j)
    \/ \E i \in Servers : FinishElection(i)

\* Every timer fires and every task that can run does (the tokio runtime)
FairElection ==
    /\ \A i \in Servers : WF_vars(StartElection(i)) /\ WF_vars(FinishElection(i))
    /\ \A i \in Servers, j \in Servers : WF_vars(ServeRequestVote(i, j))

SpecElection == Init /\ [][NextElection]_vars /\ FairElection

\* ------------------------------------------------------------------------
\* A cluster without failures: no call fails in the transport, no process dies, and
\* the election timer of a replica does not fire while there is a leader, whose
\* heartbeats (HEARTBEAT_INTERVAL, 3 s) reset it (ELECTION_TIMEOUT_MIN, 10 s).
\* A client proposes a payload once.
\* ------------------------------------------------------------------------
ReliableWorld == [World(MaxLogLenReliable) EXCEPT !.reliable = TRUE]

ReliableElectionTimeout(i) ==
    /\ node[i].timers
    /\ \A j \in Servers : node[j].state # "Leader"
    /\ \E w \in handle_election_timeout(ReliableWorld, i) : After(w, {})
    /\ UNCHANGED <<crashes, calls>>

ReliableHeartbeatTimeout(i) ==
    /\ node[i].timers
    /\ node[i].state = "Leader"
    /\ \E w \in handle_heartbeat_timeout(ReliableWorld, i) : After(w, {})
    /\ UNCHANGED <<crashes, calls>>

ReliablePropose(i, payload) ==
    /\ node[i].state = "Leader"
    /\ \A r \in proposed : r.payload # payload
    /\ \E w \in handle_propose_rpc(ReliableWorld, i, payload) : After(w, {})
    /\ UNCHANGED <<crashes, calls>>

NextReliable ==
    \/ \E i \in Servers : ReliableElectionTimeout(i)
    \/ \E i \in Servers : ReliableHeartbeatTimeout(i)
    \/ \E i \in Servers, payload \in ReliablePayloads : ReliablePropose(i, payload)

\* The timers fire
FairReliable ==
    \A i \in Servers : WF_vars(ReliableElectionTimeout(i)) /\ WF_vars(ReliableHeartbeatTimeout(i))

SpecReliable == Init /\ [][NextReliable]_vars /\ FairReliable

\* ------------------------------------------------------------------------
\* Properties
\* ------------------------------------------------------------------------
Quorums(members) == {q \in SUBSET members : Cardinality(q) * 2 > Cardinality(members)}

SameEntry(e, r) ==
    e # Absent /\ e.index = r.index /\ e.term = r.term /\ e.entry_type = r.entry_type
               /\ e.data = r.data

\* C1: state machine safety -- for any two replicas A and B and any index both have
\* applied, the entry (term and payload) A applied at that index is the entry B
\* applied at it.
StateMachineSafety ==
    \A a, b \in Servers : \A x \in applied[a], y \in applied[b] :
        a # b /\ x.index = y.index => x = y

\* C2: election safety -- for every term at most one replica ever becomes Leader.
ElectionSafety ==
    \A x, y \in elected : x[1] = y[1] => x[2] = y[2]

\* C3: leader completeness -- the log of a replica that is Leader in term T holds
\* every entry committed in a term earlier than T.
LeaderCompleteness ==
    \A i \in Servers : node[i].state = "Leader" =>
        \A c \in committed : c.cterm < current_term(node[i]) =>
            c.index <= snap_index(node[i]) \/ SameEntry(entry(node[i].log, c.index), c)

\* C4: on every replica the payloads passed to state_machine.apply are exactly the
\* payloads of the Data entries of the committed log prefix, in index order, each
\* once; Configuration and Noop entries are never passed to apply.
AppliedIsCommittedData ==
    \A i \in Servers :
        snap_index(node[i]) = 0 =>
            node[i].state_machine = DataPayloads(node[i].log, node[i].commit_index)

\* C5: durability of proposals -- an entry whose Propose was answered success = true
\* is stored in the logs of a quorum of the replicas.
ProposalDurability ==
    \A r \in proposed :
        \E q \in Quorums(Servers) : \A i \in q :
            LET e == entry(node[i].log, r.index) IN
            e # Absent /\ e.term = r.term /\ e.entry_type = "Data" /\ e.data.payload = r.payload

\* C6: committed entries are immutable -- no step removes or overwrites an entry of a
\* replica whose index is <= the replica's commit_index (truncate_suffix(k) is only
\* executed with k >= commit_index).
CommittedImmutable ==
    [][\A i \in Servers : \A k \in 1..node[i].commit_index :
          k > snap_index(node'[i]) => entry(node'[i].log, k) = entry(node[i].log, k)]_vars

\* The members of one membership set that the leader counts at N or beyond
CountAtLeast(c, which, N) ==
    (IF c.node_config_state[which] /\ c.last_index >= N THEN 1 ELSE 0)
    + Cardinality({k \in 1..Len(c.peers) :
                      c.peers[k].config_state[which] /\ c.peers[k].match_index >= N})

\* The members of one membership set: the leader, if it is one, and its peers
MembersOf(c, which) ==
    (IF c.node_config_state[which] THEN 1 ELSE 0)
    + Cardinality({k \in 1..Len(c.peers) : c.peers[k].config_state[which]})

MetadataOnDisk ==
    \A i \in Servers : node[i].metadata.disk = node[i].metadata.cache

\* C18: the match_index a replica keeps for a peer never decreases from one handler
\* to the next while the peer stays in its Peer Table: not after a successful
\* AppendEntries or heartbeat, not when the replica is elected again (the step of a
\* process that dies and starts again is not a handler).
MatchIndexMonotone ==
    [][crashes' = crashes =>
          \A i \in Servers : \A k \in 1..Len(node[i].peers) :
              contains(node'[i].peers, node[i].peers[k].id) =>
                  peer(node'[i].peers, node[i].peers[k].id).match_index
                      >= node[i].peers[k].match_index]_vars

\* C17: snapshot catch-up -- when the leader has finished an InstallSnapshot session
\* with a peer and holds match_index = last_included_index for it, the session has
\* completed on the peer: the peer holds everything up to that index (its snapshot
\* and log reach it, commit_index and last_applied are at least the index of its
\* snapshot), so that the AppendEntries that follow can deliver the tail.
SnapshotCatchUp ==
    \A l \in Servers : node[l].state = "Leader" =>
        \A k \in 1..Len(node[l].peers) :
            LET p == node[l].peers[k]
                f == node[p.id]
            IN (snap_index(node[l]) > 0 /\ p.match_index >= snap_index(node[l])) =>
                   /\ LastIndex(f) >= p.match_index
                   /\ f.commit_index >= snap_index(f)
                   /\ f.last_applied >= snap_index(f)

\* The latest configuration a log holds: that of its last Configuration entry, else
\* that of the snapshot, else the one the cluster started with
LatestConfiguration(log_config, snapshot_config) ==
    IF log_config # <<>> THEN log_config[1]
    ELSE IF snapshot_config # <<>> THEN snapshot_config[1]
    ELSE new_stable(InitialServers)

\* C11: a candidate becomes Leader only with granted votes, its own included when it
\* is a member, from a strict majority of new_servers and from a strict majority of
\* old_servers of the latest configuration in its log, the majority of an empty set
\* being held; the majorities are those of the real membership sets.
ElectionQuorum ==
    \A e \in wins :
        LET c == LatestConfiguration(e.log_config, e.snapshot_config)
            votes == e.voters \cup {e.id}
        IN /\ c.new_servers = {}
              \/ 2 * Cardinality(votes \cap c.new_servers) > Cardinality(c.new_servers)
           /\ c.old_servers = {}
              \/ 2 * Cardinality(votes \cap c.old_servers) > Cardinality(c.old_servers)

\* consensus.rs:833-848: the election timer is reset after the check of the term,
\* which returns before it when the term of the request is lower
AppendEntriesResetsTimer(n, request) == ~(request.term < current_term(n))

\* The AppendEntries requests the leaders have for their peers, as <<receiver, request>>
RequestsOfLeader(l) ==
    {<<node[l].peers[k].id, AppendEntriesRequest(node[l], node[l].peers[k], heartbeat)>> :
        k \in 1..Len(node[l].peers), heartbeat \in BOOLEAN}

LeaderRequests ==
    UNION {RequestsOfLeader(l) : l \in {i \in Servers : node[i].state = "Leader"}}

\* C20: an AppendEntries request whose term is lower than the current term of the
\* receiver is answered with the receiver's term and success = false; the receiver
\* (role, term, vote, leader_id, log, commit_index, every field of it) and the rest
\* of the world stay as they were, and the election timer is not reset.
StaleAppendEntriesRefused ==
    \A x \in LeaderRequests :
        x[2].term < current_term(node[x[1]]) =>
            LET r == handle_append_entries_rpc(World(MaxLogLen), x[1], x[2])
            IN /\ r.resp = [term |-> current_term(node[x[1]]), success |-> FALSE]
               /\ r.w = World(MaxLogLen)
               /\ ~AppendEntriesResetsTimer(node[x[1]], x[2])

\* A leader of a term that is over holds entries for a peer of a higher term, which
\* refuses the request
StaleLeaderRefused ==
    \E x \in LeaderRequests :
        /\ x[2].term < current_term(node[x[1]])
        /\ x[2].entries # <<>>
        /\ ~handle_append_entries_rpc(World(MaxLogLen), x[1], x[2]).resp.success

\* The RequestVote requests the replicas whose election timer fires have for their
\* peers, as <<receiver, request>>
RequestsOfCandidate(i) ==
    {<<node[i].peers[k].id, RequestVoteRequest(StartCandidacy(node[i]))>> :
        k \in 1..Len(node[i].peers)}

CandidateRequests ==
    UNION {RequestsOfCandidate(i) : i \in {j \in Servers : node[j].state # "Leader"}}

\* The first InstallSnapshot chunk a leader that applied its first entry has for
\* its peers, as <<receiver, request>>
SnapshotRequestsOfLeader(l) ==
    {<<node[l].peers[k].id,
       WholeFileRequest(node[l], SnapshotAt(node[l], 1), "Metadata", FALSE)>> :
        k \in 1..Len(node[l].peers)}

SnapshotRequests ==
    UNION {SnapshotRequestsOfLeader(l) :
              l \in {i \in Servers : /\ node[i].state = "Leader"
                                      /\ node[i].log.start_index = 1
                                      /\ node[i].last_applied >= 1}}

\* What step_down leaves of a replica that observed the higher term T
SteppedDownTo(n, T) ==
    /\ current_term(n) = T
    /\ voted_for(n) = NONE_SERVER_ID
    /\ n.state = "Follower"
    /\ n.leader_id = NONE_SERVER_ID

\* C19: step-down contract -- a replica in any role that steps down for a term T
\* higher than its current term has current_term = T, voted_for = none, role =
\* Follower and leader_id = none; step_down with a lower term changes nothing.  A
\* replica that gets an AppendEntries or InstallSnapshot request of a higher term T
\* has stepped down to T when the handler is over, the sender being recorded as the
\* leader of T; one that gets a RequestVote request of a higher term T has stepped
\* down to T, its vote being the one it grants in T, if it grants one.
StepDownContract ==
    /\ \A i \in Servers, T \in 0..(MaxTermDeposed + 1) :
           /\ T > current_term(node[i]) => SteppedDownTo(step_down(node[i], T), T)
           /\ T < current_term(node[i]) => step_down(node[i], T) = node[i]
    /\ \A x \in LeaderRequests :
           x[2].term > current_term(node[x[1]]) =>
               LET n == handle_append_entries_rpc(World(MaxLogLen), x[1], x[2]).w.node[x[1]]
               IN SteppedDownTo([n EXCEPT !.leader_id = NONE_SERVER_ID], x[2].term)
                  /\ n.leader_id = x[2].leader_id
    /\ \A x \in SnapshotRequests :
           x[2].term > current_term(node[x[1]]) =>
               LET n == handle_install_snapshot_rpc(World(MaxLogLen), x[1], x[2]).w.node[x[1]]
               IN SteppedDownTo([n EXCEPT !.leader_id = NONE_SERVER_ID], x[2].term)
                  /\ n.leader_id = x[2].leader_id
    /\ \A x \in CandidateRequests :
           x[2].term > current_term(node[x[1]]) =>
               LET r == handle_request_vote_rpc(World(MaxLogLen), x[1], x[2])
                   n == r.w.node[x[1]]
               IN IF r.resp.vote_granted
                  THEN SteppedDownTo([n EXCEPT !.metadata = update_voted_for(@, NONE_SERVER_ID)],
                                     x[2].term)
                       /\ voted_for(n) = x[2].candidate_id
                  ELSE SteppedDownTo(n, x[2].term)

\* A leader has a request for a peer that is a leader or a candidate of a lower
\* term and has voted in it
LeaderOfLowerTermStepsDown ==
    \E x \in LeaderRequests :
        /\ x[2].term > current_term(node[x[1]])
        /\ node[x[1]].state \in {"Leader", "Candidate"}
        /\ voted_for(node[x[1]]) # NONE_SERVER_ID
        /\ node[x[1]].leader_id # NONE_SERVER_ID

\* consensus.rs:774-801: the answer of a replica that is not the leader.  The hint
\* Some((id, addr)) is <<id>>, the address of a server being the one of its id; the
\* leader is looked up in the peer table, and is the replica itself otherwise
NotLeaderResponse(n) ==
    [success |-> FALSE,
     hint |-> IF n.leader_id = NONE_SERVER_ID THEN <<>>
              ELSE IF contains(n.peers, n.leader_id) THEN <<n.leader_id>>
              ELSE IF n.leader_id = n.server_id THEN <<n.server_id>>
              ELSE <<>>]

\* C14: Propose at a replica that is not the leader is answered success = false,
\* with the leader as the hint when leader_id is set and no hint otherwise, and the
\* replica (log, commit_index, peer table) and the rest of the world are unchanged.
NotLeaderPropose ==
    \A i \in Servers, payload \in Payloads :
        node[i].state # "Leader" =>
            /\ handle_propose_rpc(World(MaxLogLenConfig), i, payload) = {World(MaxLogLenConfig)}
            /\ ~NotLeaderResponse(node[i]).success
            /\ NotLeaderResponse(node[i]).hint =
                   IF node[i].leader_id # NONE_SERVER_ID THEN <<node[i].leader_id>> ELSE <<>>

\* consensus.rs:1081-1105 and 635-672: the success of the response to SetConfiguration
SetConfigurationSuccess(n, new_servers) ==
    IF n.state # "Leader" THEN FALSE
    ELSE IF new_servers = {} THEN FALSE
    ELSE IF is_joint(n.current_config) THEN FALSE
    ELSE IF last_configuration(n.log) # <<>> /\ is_joint(last_configuration(n.log)[1]) THEN FALSE
    ELSE is_stable(n.current_config)

\* The Configuration entries of a log, in the order of the log
ConfigurationEntries(log) ==
    SelectSeq(log.entries, LAMBDA e : e.entry_type = "Configuration")

FinalConfigurationOnce ==
    \A i \in Servers : \A k \in 1..Len(ConfigurationEntries(node[i].log)) :
        LET c == ConfigurationEntries(node[i].log)[k].data.config IN
        is_stable(c) =>
            /\ k > 1
            /\ is_joint(ConfigurationEntries(node[i].log)[k - 1].data.config)
            /\ c = finalize_transition(ConfigurationEntries(node[i].log)[k - 1].data.config)

\* C15: election liveness -- every election round ends: a replica that is in the
\* middle of an election, its lock held and its RequestVote calls out, gets to the
\* end of the handler (and so can be answered by the others, one of which wins).
ElectionRoundsTerminate ==
    \A i \in Servers : calls[i].active ~> ~calls[i].active

\* The Data entries with the payload that replica i passed to its state machine
AppliedCount(i, payload) ==
    Cardinality({k \in 1..Len(node[i].state_machine) : node[i].state_machine[k] = payload})

Replicated(r) ==
    \A i \in Servers : node[i].commit_index >= r.index /\ AppliedCount(i, r.payload) = 1

AppendEntriesMakesFollower ==
    \A x \in LeaderRequests :
        x[2].term >= current_term(node[x[1]]) =>
            LET n == handle_append_entries_rpc(World(MaxLogLen), x[1], x[2]).w.node[x[1]]
            IN n.state = "Follower" /\ n.leader_id = x[2].leader_id

\* The receiver n holds an entry at index i
StoredAt(n, i) == i >= n.log.start_index /\ entry(n.log, i) # Absent

\* The index of the last entry n holds, in its log or in its snapshot
LastStored(n) == Max(n.log.start_index + Len(n.log.entries) - 1, snap_index(n))

\* The request fails the consistency check: its prev_log_index is beyond the last
\* entry n holds, or n has another term there, in its log or as the last term of
\* its snapshot
FailsConsistency(n, request) ==
    \/ request.prev_log_index > LastStored(n)
    \/ /\ StoredAt(n, request.prev_log_index)
       /\ entry(n.log, request.prev_log_index).term # request.prev_log_term
    \/ /\ ~StoredAt(n, request.prev_log_index)
       /\ request.prev_log_index = snap_index(n)
       /\ snap_term(n) # request.prev_log_term

LogWellFormed ==
    \A i \in Servers :
        \A k \in 1..Len(node[i].log.entries) :
            /\ node[i].log.entries[k].index = node[i].log.start_index + k - 1
            /\ k > 1 => node[i].log.entries[k - 1].term <= node[i].log.entries[k].term

\* The Noop entry of a leader of term T whose log ended at index L
NoopOf(L, T) == [index |-> L + 1, term |-> T, entry_type |-> "Noop", data |-> NoData]

\* C24: leader initialisation -- a Candidate of term T whose log ends at index L and
\* that becomes Leader gives every peer match_index 0 and next_index L + 1, appends
\* a Noop entry of term T with index L + 1 and has that entry as the last one of the
\* request it builds for each peer; and every Leader holds an entry of its own
\* term, in its log or as the last one of its snapshot.
LeaderInitialisation ==
    /\ \A i \in Servers :
           node[i].state = "Candidate" =>
               LET n == node[i]
                   L == LastIndex(n)
                   T == current_term(n)
                   n1 == LeaderInit(n)
                   n2 == [n1 EXCEPT !.log = append_data(n.log, T, "Noop", NoData)]
               IN /\ \A k \in 1..Len(n1.peers) :
                         n1.peers[k].next_index = L + 1 /\ n1.peers[k].match_index = 0
                  /\ \A x \in become_leader(World(MaxLogLen), i) :
                         /\ <<T, i>> \in x.elected
                         /\ \E k \in 1..Len(x.node[i].log.entries) :
                                x.node[i].log.entries[k] = NoopOf(L, T)
                  /\ \A k \in 1..Len(n2.peers) :
                         LET entries == AppendEntriesRequest(n2, n2.peers[k], FALSE).entries
                         IN entries # <<>> /\ entries[Len(entries)] = NoopOf(L, T)
    /\ \A i \in Servers :
           node[i].state = "Leader" =>
               \/ \E k \in 1..Len(node[i].log.entries) :
                      node[i].log.entries[k].term = current_term(node[i])
               \/ snap_term(node[i]) = current_term(node[i])

\* A replica whose log is not empty has won the election of the last step and
\* holds its Noop entry as the last entry of its log
LeaderWithNoop ==
    \E e \in wins :
        LET n == node[e.id]
        IN /\ n.state = "Leader"
           /\ Len(n.log.entries) >= 2
           /\ n.log.entries[Len(n.log.entries)].entry_type = "Noop"
           /\ n.log.entries[Len(n.log.entries)].term = current_term(n)
           /\ \E k \in 1..Len(n.peers) : n.peers[k].match_index = 0

\* The results of an election in which every call failed in the transport
AllCallsFailed(n) == [k \in 1..Len(n.peers) |-> RpcError]

\* C25: a call that fails in the transport changes nothing on the caller -- among
\* the outcomes of a call of a leader to a peer (AppendEntries, or the first chunk
\* of InstallSnapshot when the peer is behind the log) are the world as it was (the
\* request was lost) and the world in which the peer handled the request and the
\* leader is as it was (the response was lost), so that the leader builds the same
\* request in the next round; an election in which every call fails counts the
\* candidate's own vote only and leaves the candidate as it started.
TransportErrorFrame ==
    /\ \A l \in {i \in Servers : node[i].state = "Leader"} :
           \A k \in 1..Len(node[l].peers), heartbeat \in BOOLEAN :
               LET w == World(MaxLogLenSnap)
                   n == node[l]
                   p == n.peers[k]
                   out == append_one_entry_to_peer(w, l, p.id, heartbeat)
                   metadata_file == latest_file_with_pattern(n.files.metadata)
                   snapshot_file == latest_file_with_pattern(n.files.snapshot)
               IN /\ w \in out
                  /\ IF ~heartbeat /\ p.next_index < n.log.start_index
                     THEN metadata_file # <<>> /\ snapshot_file # <<>> =>
                              LET r == handle_install_snapshot_rpc(
                                           w, p.id,
                                           InstallSnapshotRequests(n, current_term(n),
                                                                   metadata_file[1],
                                                                   snapshot_file[1])[1])
                              IN r.w \in out /\ r.w.node[l] = n
                     ELSE LET req == AppendEntriesRequest(n, p, heartbeat)
                              r == handle_append_entries_rpc(w, p.id, req)
                          IN /\ r.w \in out
                             /\ r.w.node[l] = n
                             /\ AppendEntriesRequest(r.w.node[l], p, heartbeat) = req
    /\ \A i \in {j \in Servers : node[j].state # "Leader"} :
           LET n == StartCandidacy(node[i])
               w == SetNode(World(MaxLogLenSnap), n)
               x == [w |-> w, results |-> AllCallsFailed(n)]
               c == Tally(x, i, PeerIdSeq(n))
           IN /\ x \in SendRequestVotes(w, i, PeerIdSeq(n), RequestVoteRequest(n))
              /\ c.n = n
              /\ c.voters = {}
              /\ c.granted_votes_for_new = OwnVote(n, "newing")
              /\ c.granted_votes_for_old = OwnVote(n, "olding")

\* The response of a peer was lost: the peer holds the last entry of its leader,
\* and the leader has match_index 0 for it and would send the entry again
ResponseLost ==
    \E l \in Servers :
        /\ node[l].state = "Leader"
        /\ \E k \in 1..Len(node[l].peers) :
               LET p == node[l].peers[k]
                   e == entry(node[l].log, LastIndex(node[l]))
               IN /\ p.match_index = 0
                  /\ p.next_index <= LastIndex(node[l])
                  /\ node[p.id].leader_id = l
                  /\ StoredAt(node[l], LastIndex(node[l]))
                  /\ StoredAt(node[p.id], LastIndex(node[l]))
                  /\ entry(node[p.id].log, LastIndex(node[l])) = e
                  /\ current_term(node[p.id]) = current_term(node[l])

\* The match_index the replica n has recorded for the server id
MatchIndexOf(n, id) == IF contains(n.peers, id) THEN peer(n.peers, id).match_index ELSE 0

\* The replica pn holds what the leader ln has at index i: in its snapshot, or in
\* its log with the term the leader has there (if the leader still has the entry)
HoldsEntryOf(pn, ln, i) ==
    \/ i <= snap_index(pn)
    \/ /\ StoredAt(pn, i)
       /\ StoredAt(ln, i) => entry(pn.log, i).term = entry(ln.log, i).term

\* C26: match_index is sound -- in a step in which a leader records a new
\* match_index m > 0 for a peer, the peer holds the entries of the leader at every
\* index up to m, in its log or in the snapshot it installed; after a successful
\* AppendEntries and after the last chunk of an InstallSnapshot session alike.
MatchIndexSound ==
    [][\A l \in Servers : \A p \in Servers \ {l} :
           (/\ node'[l].state = "Leader"
            /\ MatchIndexOf(node'[l], p) > 0
            /\ MatchIndexOf(node'[l], p) # MatchIndexOf(node[l], p))
           => (\A i \in 1..MatchIndexOf(node'[l], p) :
                   HoldsEntryOf(node'[p], node'[l], i))]_vars

\* C27: a peer behind the log gets the snapshot -- in every round, heartbeat or not,
\* the call of a leader to a peer whose next_index is below log.start_index is an
\* InstallSnapshot session and no AppendEntries; and every AppendEntries request a
\* leader builds has a prev_log_index whose term the leader knows: 0, the last index
\* of its snapshot, or the index of an entry of its log.
SnapshotForPeerBehind ==
    \A l \in {i \in Servers : node[i].state = "Leader"} :
        \A k \in 1..Len(node[l].peers), heartbeat \in BOOLEAN :
            LET n == node[l]
                p == n.peers[k]
                request == AppendEntriesRequest(n, p, heartbeat)
            IN IF p.next_index < n.log.start_index
               THEN append_one_entry_to_peer(World(MaxLogLenSnap), l, p.id, heartbeat)
                        = install_snapshot_to_peer(World(MaxLogLenSnap), l, p.id)
               ELSE \/ request.prev_log_index = 0
                    \/ request.prev_log_index = snap_index(n)
                    \/ StoredAt(n, request.prev_log_index)

\* The requests of the session a leader would run now, <<>> when a file is missing
SessionRequests(n) ==
    LET metadata_file == latest_file_with_pattern(n.files.metadata)
        snapshot_file == latest_file_with_pattern(n.files.snapshot)
    IN IF metadata_file = <<>> \/ snapshot_file = <<>> THEN <<>>
       ELSE InstallSnapshotRequests(n, current_term(n), metadata_file[1], snapshot_file[1])

RECURSIVE BytesBefore(_, _)

BytesBefore(requests, k) ==
    IF k = 1 THEN 0 ELSE BytesBefore(requests, k - 1) + Len(requests[k - 1].data)

RECURSIVE BytesOf(_, _)

\* The bytes of the chunks of one type, in the order they are sent
BytesOf(requests, type) ==
    IF requests = <<>> THEN <<>>
    ELSE (IF requests[1].snapshot_data_type = type THEN requests[1].data ELSE <<>>)
             \o BytesOf(Tail(requests), type)

RECURSIVE AfterChunks(_, _, _, _)

\* The world when the peer has handled the first k requests
AfterChunks(w, peer_id, requests, k) ==
    IF k = 0 THEN w
    ELSE handle_install_snapshot_rpc(AfterChunks(w, peer_id, requests, k - 1),
                                     peer_id, requests[k]).w

\* C28: one InstallSnapshot session -- the chunks of the metadata file come before
\* the chunks of the data file and carry the bytes of the two files, the offset of a
\* chunk is the number of bytes sent before it over both files, every chunk carries
\* the last_included_index and last_included_term of the leader's snapshot, done is
\* set on the last chunk of the data file and on no other; a response of a higher
\* term ends the session with the leader stepped down and nothing recorded for the
\* peer, and a call that fails ends it with the peer having handled the chunks up
\* to that call and the leader unchanged.
SnapshotSession ==
    \A l \in {i \in Servers : node[i].state = "Leader"} :
        \A k \in 1..Len(node[l].peers) :
            LET n == node[l]
                peer_id == n.peers[k].id
                w == World(MaxLogLenSnap)
                requests == SessionRequests(n)
                outcomes == install_snapshot_to_peer(w, l, peer_id)
            IN requests # <<>> =>
               /\ \E m \in 0..(Len(requests) - 1) :
                      /\ \A j \in 1..m : requests[j].snapshot_data_type = "Metadata"
                      /\ \A j \in (m + 1)..Len(requests) : requests[j].snapshot_data_type = "Snapshot"
               /\ BytesOf(requests, "Metadata") = latest_file_with_pattern(n.files.metadata)[1].content
               /\ BytesOf(requests, "Snapshot") = latest_file_with_pattern(n.files.snapshot)[1].content
               /\ \A j \in 1..Len(requests) :
                      /\ requests[j].offset = BytesBefore(requests, j)
                      /\ requests[j].last_included_index = n.snapshot.last_included_index
                      /\ requests[j].last_included_term = n.snapshot.last_included_term
                      /\ requests[j].term = current_term(n)
                      /\ requests[j].done = (j = Len(requests))
               /\ IF current_term(node[peer_id]) > current_term(n)
                  THEN outcomes = {w, SetNode(w, step_down(n, current_term(node[peer_id])))}
                  ELSE \A j \in 0..Len(requests) :
                           AfterChunks(w, peer_id, requests, j) \in outcomes

\* A leader has run a session to a peer, which holds the bytes of the leader's
\* metadata file in its temporary file
SessionReceived ==
    \E l \in Servers : \E p \in Servers \ {l} :
        /\ node[l].state = "Leader"
        /\ SessionRequests(node[l]) # <<>>
        /\ \E f \in node[p].files.tmp_metadata :
               /\ f.index = node[l].snapshot.last_included_index
               /\ f.term = node[l].snapshot.last_included_term
               /\ f.content = BytesOf(SessionRequests(node[l]), "Metadata")

\* The positions of the log of n that hold an entry of index i
PositionsOf(n, i) == {k \in 1..Len(n.log.entries) : n.log.entries[k].index = i}

\* The number of entries of the log of n up to its commit index
CommittedInMemory(n) ==
    Cardinality({k \in 1..Len(n.log.entries) : n.log.entries[k].index <= n.commit_index})

\* C29: the snapshot timeout -- with more than five committed entries in the log,
\* last_applied > 0 and a term for it (the entry of index last_applied is in the
\* log, or last_applied is the last index of the current snapshot), the handler
\* leaves a snapshot of last_included_index = last_applied, of the term of that
\* entry (else of the current snapshot) and of current_config, and a log of
\* start_index = last_applied + 1 that keeps exactly the entries above last_applied;
\* in every other case it leaves snapshot and log as they were.
SnapshotTimeoutTakes ==
    \A i \in Servers :
        LET n == node[i]
            r == handle_snapshot_timeout(n)
            held == PositionsOf(n, n.last_applied)
        IN IF /\ CommittedInMemory(n) > 5
              /\ n.last_applied > 0
              /\ (held # {} \/ n.last_applied = n.snapshot.last_included_index)
           THEN /\ r.snapshot.last_included_index = n.last_applied
                /\ r.snapshot.last_included_term =
                       IF held # {} THEN n.log.entries[CHOOSE k \in held : TRUE].term
                       ELSE n.snapshot.last_included_term
                /\ r.snapshot.configuration = <<n.current_config>>
                /\ r.log.start_index = n.last_applied + 1
                /\ r.log.entries = SelectSeq(n.log.entries, LAMBDA e : e.index > n.last_applied)
           ELSE /\ r.snapshot = n.snapshot
                /\ r.log = n.log

PeersStayUntilCommit ==
    \A i \in Servers :
        \A p \in all_ids_in_config(node[i].current_config) \ {i} :
            contains(node[i].peers, p)

\* C34: the membership flags follow current_config -- on every replica
\* node_config_state is get_node_state of current_config for the replica, and the
\* config_state of every peer is get_node_state of current_config for that peer,
\* whatever Configuration entries are in the log and not committed.
ConfigStateFollowsCurrentConfig ==
    \A i \in Servers :
        /\ node[i].node_config_state = get_node_state(node[i].current_config, i)
        /\ \A k \in 1..Len(node[i].peers) :
               node[i].peers[k].config_state
                   = get_node_state(node[i].current_config, node[i].peers[k].id)

\* C37: a request of term 0 is refused -- an AppendEntries, RequestVote or
\* InstallSnapshot request whose term field is 0 is answered success = false or
\* vote_granted = false and leaves the receiver and the rest of the world as they
\* were, on a replica whose current_term is still 0 as on any other.
ZeroTermRefused ==
    /\ \A x \in CandidateRequests :
           LET r == handle_request_vote_rpc(World(MaxLogLen), x[1], [x[2] EXCEPT !.term = 0])
           IN ~r.resp.vote_granted /\ r.w = World(MaxLogLen)
    /\ \A x \in LeaderRequests :
           LET r == handle_append_entries_rpc(World(MaxLogLen), x[1], [x[2] EXCEPT !.term = 0])
           IN ~r.resp.success /\ r.w = World(MaxLogLen)
    /\ \A x \in SnapshotRequests :
           handle_install_snapshot_rpc(World(MaxLogLen), x[1], [x[2] EXCEPT !.term = 0]).w
               = World(MaxLogLen)

\* ------------------------------------------------------------------------
\* peer.rs: quoram_match_index over the contents of a Peer Table
\* ------------------------------------------------------------------------
\* The peers of the table, and the largest match index in it
QuorumPeers == {2, 3, 4}
MaxMatch == 2

ConfigStates == [newing : BOOLEAN, olding : BOOLEAN]

\* A log of last entries of term 1
NoopLog(last) ==
    [entries |-> [k \in 1..last |-> [index |-> k, term |-> 1, entry_type |-> "Noop",
                                     data |-> NoData]],
     start_index |-> 1]

\* Replica 1 with the Peer Table, the membership flags and the log of the input
InitQuorum ==
    \E flags \in [QuorumPeers \cup {1} -> ConfigStates],
       matches \in [QuorumPeers -> 0..MaxMatch],
       last \in 0..MaxMatch :
        /\ node = [i \in Servers |->
                      IF i = 1
                      THEN [Consensus_new(1, NewMetadata, NoopLog(last), NoFiles) EXCEPT
                                !.node_config_state = flags[1],
                                !.peers = [k \in 1..Cardinality(QuorumPeers) |->
                                              [id |-> SetToSeq(QuorumPeers)[k],
                                               next_index |-> matches[SetToSeq(QuorumPeers)[k]] + 1,
                                               match_index |-> matches[SetToSeq(QuorumPeers)[k]],
                                               config_state |-> flags[SetToSeq(QuorumPeers)[k]]]]]
                      ELSE Consensus_new(i, NewMetadata, NewLog, NoFiles)]
        /\ elected = {}
        /\ applied = [i \in Servers |-> {}]
        /\ committed = {}
        /\ proposed = {}
        /\ commits = {}
        /\ wins = {}
        /\ crashes = 0
        /\ calls = [i \in Servers |-> NoCall]

\* The call of consensus.rs:464-467, its result kept as the commit index
QuorumMatchIndex(i) ==
    /\ node' = [node EXCEPT ![i].commit_index =
                   quoram_match_index(node[i].peers, node[i].node_config_state,
                                      LastIndex(node[i]))]
    /\ UNCHANGED <<elected, applied, committed, proposed, commits, wins, crashes, calls>>

NextQuorum == \E i \in {1} : QuorumMatchIndex(i)

SpecQuorum == InitQuorum /\ [][NextQuorum]_vars

\* The match indexes of one membership set of n: the last index of n when n is a
\* member, and the match_index of the peers that are members
MatchIndexesOf(n, which) ==
    (IF n.node_config_state[which] THEN <<LastIndex(n)>> ELSE <<>>)
        \o [k \in 1..Len(SelectSeq(n.peers, LAMBDA p : p.config_state[which])) |->
               SelectSeq(n.peers, LAMBDA p : p.config_state[which])[k].match_index]

\* The ((n - 1) / 2)-th element, counted from 0, of the n values in ascending order
LowerMedian(vals) == SortSeq(vals, LAMBDA a, b : a < b)[((Len(vals) - 1) \div 2) + 1]

\* More than half of the values are N or more
MajorityReached(vals, N) ==
    Cardinality({k \in 1..Len(vals) : vals[k] >= N}) * 2 > Len(vals)

\* C38: quoram_match_index -- for every Peer Table, membership flags of the leader
\* and last index of the leader, the result is the least, over the membership sets
\* (new, old) that have a member, of the ((n - 1) / 2)-th of the n match indexes of
\* the set in ascending order; it is the largest index that more than half of every
\* set with a member has reached; and it is u64::MAX when no set has a member.
QuorumIsMajorityIndex ==
    \A i \in Servers :
        LET n == node[i]
            N == quoram_match_index(n.peers, n.node_config_state, LastIndex(n))
            sets == {vals \in {MatchIndexesOf(n, "newing"), MatchIndexesOf(n, "olding")} :
                        vals # <<>>}
        IN IF sets = {} THEN N = U64_MAX
           ELSE /\ \E vals \in sets : N = LowerMedian(vals)
                /\ \A vals \in sets : N <= LowerMedian(vals)
                /\ \A vals \in sets : MajorityReached(vals, N)
                /\ \E vals \in sets : ~MajorityReached(vals, N + 1)

\* The result was taken for a table whose two sets have members and differ in what
\* more than half of them reached
QuorumOfTwoSets ==
    /\ MatchIndexesOf(node[1], "newing") # <<>>
    /\ MatchIndexesOf(node[1], "olding") # <<>>
    /\ LowerMedian(MatchIndexesOf(node[1], "newing")) = 2
    /\ LowerMedian(MatchIndexesOf(node[1], "olding")) = 1
    /\ Len(MatchIndexesOf(node[1], "olding")) = 4
    /\ node[1].commit_index = 1

\* What Log::truncate_prefix(upto) is to leave of log
TruncatedAt(log, upto) ==
    LET after == truncate_prefix(log, upto) IN
    IF upto >= log.start_index
    THEN /\ after.start_index = upto + 1
         /\ after.entries = SelectSeq(log.entries, LAMBDA e : e.index > upto)
         /\ \A i \in 1..upto : entry(after, i) = VIRTUAL_LOG_ENTRY
         /\ after.entries = <<>> =>
                LET e == append_data(after, 1, "Noop", NoData).entries[1]
                IN e.index = after.start_index
    ELSE after = log

\* C39: Log::truncate_prefix(upto) -- the snapshot a replica takes at its snapshot
\* timeout truncates the log at upto = last_applied >= start_index: afterwards
\* start_index = upto + 1, no entry of index <= upto is held, every entry of index
\* > upto is held as it was, entry(i) is the virtual entry of term 0 for 1 <= i <=
\* upto, and append_data on a log left empty gives the next entry the index
\* start_index; a call with upto < start_index changes nothing.
TruncatePrefixContract ==
    \A i \in Servers :
        /\ handle_snapshot_timeout(node[i]).snapshot # node[i].snapshot
               => TruncatedAt(node[i].log, node[i].last_applied)
        /\ \A upto \in 0..(node[i].log.start_index - 1) : TruncatedAt(node[i].log, upto)

\* The cluster of InitSnap with a longer log: proposals at the leader up to
\* MaxLogLenLong and the snapshot timer of replica 3
MaxLogLenLong == 13

NextSnapLong ==
    \/ \E i \in {3} : SnapshotTimeout(i)
    \/ \E i \in {1}, payload \in Payloads : Propose(i, payload, {}, MaxLogLenLong)

SpecSnapLong == InitSnap /\ [][NextSnapLong]_vars

\* The RequestVote requests of the term of their receiver, which has given its vote
\* of that term to another replica than the candidate
SecondRequests ==
    {x \in CandidateRequests :
        /\ x[2].term = current_term(node[x[1]])
        /\ voted_for(node[x[1]]) \notin {NONE_SERVER_ID, x[2].candidate_id}}

\* C40: one vote per term -- a replica whose voted_for is a replica id in term T
\* answers every RequestVote of term T of another candidate with vote_granted =
\* false and keeps its vote; and from one state of a replica to the next voted_for
\* changes only when current_term has grown.
OneVotePerTerm ==
    /\ [](\A x \in SecondRequests :
              LET r == handle_request_vote_rpc(World(MaxLogLen), x[1], x[2])
              IN /\ ~r.resp.vote_granted
                 /\ voted_for(Node(r.w, x[1])) = voted_for(node[x[1]])
                 /\ current_term(Node(r.w, x[1])) = current_term(node[x[1]]))
    /\ [][\A i \in Servers :
              (/\ voted_for(node[i]) # NONE_SERVER_ID
               /\ voted_for(node'[i]) # voted_for(node[i]))
              => current_term(node'[i]) > current_term(node[i])]_vars

\* The replicas whose response the election of replica i is still awaiting
Awaited(i) ==
    IF calls[i].active THEN PeerIds(node[i].peers) \ DOMAIN calls[i].results ELSE {}

\* C36: the lock is released across an awaited call -- no two replicas are each in
\* the middle of a handler that awaits the response of the other, a response the
\* other can give only with its own lock.
NoMutualWait ==
    \A a \in Servers :
        \A b \in Servers \ {a} : ~(b \in Awaited(a) /\ a \in Awaited(b))

\* The stable configurations without the replica c.id among the entries that the
\* advance c of the commit index of c.id covers
RemovingConfigs(c) ==
    {k \in (c.commit_index + 1)..c.n :
        LET e == entry(node[c.id].log, k)
        IN /\ e # Absent
           /\ e.entry_type = "Configuration"
           /\ is_stable(e.data.config)
           /\ c.id \notin e.data.config.new_servers}

\* C32: a leader that is not in new_servers leaves on the commit of C(new) -- once
\* it has found the quorum for a C(new) that it is not a member of and advances its
\* commit index over the entry, it is a Follower without a leader and its timers
\* are stopped.
RemovedLeaderLeavesOnCommit ==
    \A c \in commits :
        RemovingConfigs(c) # {}
            => /\ node[c.id].state = "Follower"
               /\ node[c.id].leader_id = NONE_SERVER_ID
               /\ ~node[c.id].timers

\* The stable configurations without replica i among the entries i has committed
CommittedWithout(i) ==
    {k \in 1..node[i].commit_index :
        LET e == entry(node[i].log, k)
        IN /\ e # Absent
           /\ e.entry_type = "Configuration"
           /\ is_stable(e.data.config)
           /\ i \notin e.data.config.new_servers}

StoppedStaysFollower ==
    \A i \in Servers : ~node[i].timers => node[i].state = "Follower"

====
